---------------------------- MODULE Spec2Model ----------------------------
(***************************************************************************)
(* A model of the data-analytics-portfolio scripts: the Airbnb, Telco and  *)
(* Instacart pipelines (load -> clean -> engineer features -> report).     *)
(*                                                                         *)
(* A DataFrame is a sequence of rows, a row a record of its columns.  A    *)
(* numeric cell is <<>> when missing (NaN) and <<v>> when it holds v; a     *)
(* text cell is the string NA when missing.  Each script is a little state *)
(* machine whose program counter walks through the calls of its entry      *)
(* point; an exception stops it in pc = "raised" with the exception named. *)
(***************************************************************************)
EXTENDS Integers, Sequences, FiniteSets, TLC

VARIABLES
    rng,        \* the state of numpy's global random generator (np.random)
    airPc,      \* Airbnb: position in load_and_prepare_data
    airFile,    \* Airbnb: the CSV at file_path: whether it exists, and its rows
    airDf,      \* Airbnb: df, as loaded or generated
    airMin,     \* Airbnb: price_min of the clean_airbnb_data call
    airMax,     \* Airbnb: price_max of the clean_airbnb_data call
    airClean,   \* Airbnb: df_clean, the value clean_airbnb_data returned
    airFeat,    \* Airbnb: df_final, the value engineer_features returned
    airErr,     \* Airbnb: the exception that ended the run, or "none"
    telPc,      \* Telco: position in load_and_preprocess_data
    telFile,    \* Telco: the CSV at file_path: whether it exists, its rows
    telRaw,     \* Telco: df_raw
    telClean,   \* Telco: df_clean, the value clean_data returned
    telFeat,    \* Telco: df_features, the value engineer_features returned
    telQ75,     \* Telco: charges_75th of the engineer_features call
    telErr,     \* Telco: the exception that ended the run, or "none"
    insScript,  \* Instacart analysis: the script run, "complete" or "demo"
    insPc,      \* Instacart analysis: position in main
    insFiles,   \* Instacart analysis: the five CSV files of ../data/raw
    insTables,  \* Instacart analysis: the five tables main works on
    insSource,  \* Instacart analysis: data_source / data_available
    insMaster,  \* Instacart analysis: master_df
    insAnalysis, \* Instacart analysis: the tables of the 4P analysis
    insLift,    \* Instacart analysis: weekend_lift as computed
    insPrinted, \* Instacart analysis: weekend_lift as printed
    insSummary, \* Instacart analysis: the rows of executive_summary.csv
    insSaved,   \* Instacart analysis: the rows of master_dataset.csv
    insErr,     \* Instacart analysis: the exception that ended the run
    genPc,      \* generators: "running" in a process that invokes them
    genFirst,   \* generators: the first invocation of the process
    genSecond,  \* generators: the second invocation of the process
    prepPc,     \* Instacart preprocessing: position in main
    prepFiles,  \* Instacart preprocessing: the five CSV files of data_path
    prepDatasets, \* Instacart preprocessing: the dictionary 'datasets'
    prepPrinted, \* Instacart preprocessing: what load_instacart_data printed
    prepMaster, \* Instacart preprocessing: master_df of main
    prepPassed, \* Instacart preprocessing: the frame passed to the last
                \* stage, as the call left it
    prepSnacks, \* Instacart preprocessing: snacks_df
    prepStats,  \* Instacart preprocessing: reorder_stats
    prepSaved,  \* Instacart preprocessing: the CSV files written
    prepErr     \* Instacart preprocessing: the exception that ended the run

airVars == <<airPc, airFile, airDf, airMin, airMax, airClean, airFeat, airErr>>
telVars == <<telPc, telFile, telRaw, telClean, telFeat, telQ75, telErr>>
insVars == <<insScript, insPc, insFiles, insTables, insSource, insMaster,
             insAnalysis, insLift, insPrinted, insSummary, insSaved, insErr>>
genVars == <<genPc, genFirst, genSecond>>
prepVars == <<prepPc, prepFiles, prepDatasets, prepPrinted, prepMaster,
              prepPassed, prepSnacks, prepStats, prepSaved, prepErr>>
vars == <<rng, airVars, telVars, insVars, genVars, prepVars>>

\* What the run of one script leaves alone: the state of the other scripts.
exceptAir == <<telVars, insVars, genVars, prepVars>>
exceptTel == <<airVars, insVars, genVars, prepVars>>
exceptIns == <<airVars, telVars, genVars, prepVars>>
exceptGen == <<airVars, telVars, insVars, prepVars>>
exceptPrep == <<airVars, telVars, insVars, genVars>>

----------------------------------------------------------------------------
(* Bounds of the model. *)

\* The largest number of rows of a CSV file read from disk.
MaxRows == 2
\* The largest n_samples a generator is called with (the source's default,
\* 1000, scaled down).
MaxSamples == 2
\* The number of states of the modelled random generator.
RngMod == 32
\* The largest number of rows a Telco CSV holds besides its first row.
MaxOthers == 1

----------------------------------------------------------------------------
(* Cells. *)

NaN == <<>>
NA == "<NA>"
Num(v) == <<v>>
IsNa(x) == x = NaN
Val(x) == x[1]
\* float('inf'), above every value of the model.
Inf == 1000000

\* Series.fillna(v) on one cell.
FillNa(x, v) == IF IsNa(x) THEN Num(v) ELSE x

Rows(df) == {df[i] : i \in DOMAIN df}

\* The frame passed to a function that works on the caller's object
\* itself: what the function wrote.
PassedAfterAlias(df, written) == written

\* df.copy(), the first statement of the Airbnb and Telco functions: the
\* function writes to the copy, and the frame passed in is after the call
\* what it was before.
PassedAfterCopy(df, written) == df

----------------------------------------------------------------------------
(* pandas.cut(x, bins, labels, right=True, include_lowest).                *)

\* The exception pd.cut raises for these bin edges, or "none": the edges
\* must not decrease and must be pairwise distinct.
CutError(bins) ==
    IF \E i \in 1..(Len(bins) - 1) : bins[i] > bins[i + 1]
        THEN "ValueError"
    ELSE IF Len(bins) # 2 /\ \E i, j \in DOMAIN bins : i # j /\ bins[i] = bins[j]
        THEN "ValueError"
    ELSE "none"

\* The label of one cell: ids = searchsorted(bins, x, side='left'), the
\* number of edges below x; the lowest edge itself joins the first bin only
\* with include_lowest; ids = 0 and ids = len(bins) are out of range (NaN).
Cut(x, bins, labels, include_lowest) ==
    IF IsNa(x) THEN NA
    ELSE LET v == Val(x)
             below == Cardinality({j \in DOMAIN bins : bins[j] < v})
             ids == IF include_lowest /\ v = bins[1] THEN 1 ELSE below
         IN IF ids = 0 \/ ids = Len(bins) THEN NA ELSE labels[ids]

----------------------------------------------------------------------------
(* numpy's global random generator, abstracted to a small congruential     *)
(* generator: np.random.seed sets the state as a function of the seed      *)
(* alone, every draw advances it.                                          *)

RngStates == 0..(RngMod - 1)

\* The seeds the generators are called with (42 is the source's default).
Seeds == {42, 7}

\* One draw's effect on the generator state.
NextRng(s) == (5 * s + 3) % RngMod

\* The state k draws after state s.
RECURSIVE RngAt(_, _)
RngAt(s, k) == IF k = 0 THEN s ELSE RngAt(NextRng(s), k - 1)

\* A seed call that leaves the generator where it is.
SeedRngKeepsState(seed, cur) == cur

\* np.random.seed(seed), called in state cur.
SeedRng(seed, cur) == seed % RngMod

\* The value a draw in state s picks from the support 'support'.
Pick(support, s) == support[(s % Len(support)) + 1]

----------------------------------------------------------------------------
(* Airbnb: Optimizing-Airbnb-Listings-for-Higher-Revenue/scripts/          *)
(* data_preprocessing.py                                                   *)

\* os.path.exists(file_path) and the rows read_csv returns.
NoFile == [exists |-> FALSE, rows |-> <<>>]
File(rows) == [exists |-> TRUE, rows |-> rows]

AirRow(ng, rt, price, nrev, rpm, chlc, avail) ==
    [idx |-> 0, neighbourhood_group |-> ng, room_type |-> rt, price |-> price,
     number_of_reviews |-> nrev, reviews_per_month |-> rpm,
     calculated_host_listings_count |-> chlc, availability_365 |-> avail]

\* The rows a CSV file is made of: a regular listing with one group of
\* columns varied at a time over missing values and the cleaner's and the
\* feature engineer's boundaries.
AirFilePrices == {NaN, Num(9), Num(10), Num(75), Num(76), Num(150),
                  Num(300), Num(301), Num(1000), Num(1001)}
AirFileRows ==
    {AirRow("Manhattan", "Private room", p, Num(5), Num(1), Num(1), Num(100)) :
        p \in AirFilePrices}
    \cup {AirRow(ng, rt, Num(100), Num(5), Num(1), Num(1), Num(100)) :
        ng \in {NA, "Brooklyn"}, rt \in {NA, "Shared room"}}
    \cup {AirRow("Queens", "Entire home/apt", Num(80), n, NaN, Num(2), Num(200)) :
        n \in {NaN, Num(0), Num(10), Num(11), Num(50), Num(51)}}
    \cup {AirRow("Bronx", "Private room", Num(200), Num(20), Num(2), c, a) :
        c \in {NaN, Num(0), Num(5), Num(6)}, a \in {Num(0), Num(90), Num(365)}}

\* read_csv numbers the rows 0, 1, ... (the RangeIndex).
WithIndex(rows) == [i \in DOMAIN rows |-> [rows[i] EXCEPT !.idx = i - 1]]

AirFiles == {File(WithIndex(f)) : f \in UNION {[1..n -> AirFileRows] : n \in 0..MaxRows}}

\* The (price_min, price_max) pairs clean_airbnb_data is called with; the
\* first is the default of the signature.
AirDefaultBounds == <<10, 1000>>
AirBoundPairs == {AirDefaultBounds, <<75, 150>>, <<76, 76>>, <<0, 9>>}

\* The supports of the columns create_sample_data draws; prices come from
\* lognormal(4.5, 0.8).astype(int), counts from poisson, availability from
\* randint(0, 366).
SampleGroups == <<"Manhattan", "Brooklyn", "Queens", "Bronx", "Staten Island">>
SampleRoomTypes == <<"Entire home/apt", "Private room", "Shared room">>
SamplePrices == <<0, 9, 10, 40, 75, 90, 150, 200, 300, 450, 1000, 1200>>
SampleReviews == <<0, 5, 10, 11, 20, 50, 51>>
SampleRates == <<1, 2, 3, 4, 5>>
SampleHostListings == <<0, 1, 2, 3, 5, 6>>
SampleAvailability == <<0, 45, 90, 91, 180, 181, 365>>

\* The number of columns of the sample that consume random draws: host_id,
\* host_name, neighbourhood_group, neighbourhood, latitude, longitude,
\* room_type, price, minimum_nights, number_of_reviews, reviews_per_month,
\* calculated_host_listings_count, availability_365, each n_samples draws,
\* in this order.
SampleDrawnColumns == 13

\* create_sample_data(n_samples, random_state) called with the generator in
\* state cur: the frame returned, and the generator state it leaves.
create_sample_data(n, seed, cur) ==
    LET s0 == SeedRng(seed, cur)
        At(col, i) == RngAt(s0, (col - 1) * n + i)
    IN [df |-> [i \in 1..n |->
                 [idx |-> i - 1,
                  neighbourhood_group |-> Pick(SampleGroups, At(3, i)),
                  room_type |-> Pick(SampleRoomTypes, At(7, i)),
                  price |-> Num(Pick(SamplePrices, At(8, i))),
                  number_of_reviews |-> Num(Pick(SampleReviews, At(10, i))),
                  reviews_per_month |-> Num(Pick(SampleRates, At(11, i))),
                  calculated_host_listings_count |->
                      Num(Pick(SampleHostListings, At(12, i))),
                  availability_365 |-> Num(Pick(SampleAvailability, At(13, i)))]],
        rng |-> RngAt(s0, SampleDrawnColumns * n)]

\* A price filter that forgets the upper bound.
PriceInRangeNoMax(row, price_min, price_max) ==
    /\ ~IsNa(row.price)
    /\ Val(row.price) >= price_min

\* The boolean mask of the price filter; a comparison with NaN is False.
PriceInRange(row, price_min, price_max) ==
    /\ ~IsNa(row.price)
    /\ Val(row.price) >= price_min
    /\ Val(row.price) <= price_max

\* dropna(subset=critical_columns) keeps a row with none of them missing.
HasCritical(row) ==
    /\ row.neighbourhood_group # NA
    /\ row.room_type # NA
    /\ ~IsNa(row.price)

\* The three fillna calls.
AirFill(row) ==
    [row EXCEPT !.number_of_reviews = FillNa(@, 0),
                !.reviews_per_month = FillNa(@, 0),
                !.calculated_host_listings_count = FillNa(@, 1)]

\* A cleaning that also treats the dearest listing of the frame as an
\* outlier: a row is kept only if a dearer row is in the frame.
clean_airbnb_data_relative(df, price_min, price_max) ==
    LET InRange(r) ==
            /\ PriceInRange(r, price_min, price_max)
            /\ \E k \in DOMAIN df :
                  ~IsNa(df[k].price) /\ Val(df[k].price) > Val(r.price)
        ranged == SelectSeq(df, InRange)
        kept == SelectSeq(ranged, HasCritical)
    IN [i \in DOMAIN kept |-> AirFill(kept[i])]

clean_airbnb_data(df, price_min, price_max) ==
    LET InRange(r) == PriceInRange(r, price_min, price_max)
        ranged == SelectSeq(df, InRange)
        kept == SelectSeq(ranged, HasCritical)
    IN [i \in DOMAIN kept |-> AirFill(kept[i])]

\* The lambda of host_type; every comparison with NaN is False.
HostType(x) ==
    IF ~IsNa(x) /\ Val(x) = 1 THEN "Single Listing"
    ELSE IF ~IsNa(x) /\ Val(x) <= 5 THEN "Multiple Listings"
    ELSE "Super Host"

ReviewBins == <<0, 0, 10, 50, Inf>>
ReviewLabels == <<"No Reviews", "Few Reviews", "Many Reviews", "Highly Reviewed">>
AvailabilityBins == <<0, 90, 180, 365>>
AvailabilityLabels == <<"Low Available", "Medium Available", "High Available">>
PriceBins == <<0, 75, 150, 300, Inf>>
PriceLabels == <<"Budget", "Mid-Range", "Premium", "Luxury">>

\* price * (365 - availability_365) / 365, kept as the fraction <<n, d>>.
RevenuePotential(row) ==
    IF IsNa(row.price) \/ IsNa(row.availability_365) THEN NaN
    ELSE Num(<<Val(row.price) * (365 - Val(row.availability_365)), 365>>)

AirFeatureRow(row) ==
    [idx |-> row.idx,
     neighbourhood_group |-> row.neighbourhood_group,
     room_type |-> row.room_type,
     price |-> row.price,
     number_of_reviews |-> row.number_of_reviews,
     reviews_per_month |-> row.reviews_per_month,
     calculated_host_listings_count |-> row.calculated_host_listings_count,
     availability_365 |-> row.availability_365,
     revenue_potential |-> RevenuePotential(row),
     host_type |-> HostType(row.calculated_host_listings_count),
     review_activity |-> Cut(row.number_of_reviews, ReviewBins, ReviewLabels, FALSE),
     availability_category |->
         Cut(row.availability_365, AvailabilityBins, AvailabilityLabels, FALSE),
     price_category |-> Cut(row.price, PriceBins, PriceLabels, FALSE)]

\* engineer_features(df): the exception of the first pd.cut call that
\* raises, in the order of the calls, the frame returned when none does,
\* and the frame df_features as written up to the return or the raise.
engineer_features(df) ==
    LET err == IF CutError(ReviewBins) # "none" THEN CutError(ReviewBins)
               ELSE IF CutError(AvailabilityBins) # "none"
                   THEN CutError(AvailabilityBins)
               ELSE CutError(PriceBins)
        partial == [i \in DOMAIN df |->
                       [revenue_potential |-> RevenuePotential(df[i]),
                        host_type |->
                            HostType(df[i].calculated_host_listings_count)]
                       @@ df[i]]
    IN [err |-> err,
        df |-> IF err = "none" THEN [i \in DOMAIN df |-> AirFeatureRow(df[i])]
               ELSE <<>>,
        written |-> IF err = "none"
                       THEN [i \in DOMAIN df |-> AirFeatureRow(df[i])]
                    ELSE IF CutError(ReviewBins) # "none" THEN partial
                    ELSE [i \in DOMAIN df |->
                             [review_activity |->
                                  Cut(df[i].number_of_reviews, ReviewBins,
                                      ReviewLabels, FALSE)] @@ partial[i]]]

\* load_and_prepare_data, lines 183-188: read the CSV when the path exists,
\* else create_sample_data() with its defaults (n_samples scaled to
\* MaxSamples, random_state 42).
AirLoad ==
    /\ airPc = "start"
    /\ IF airFile.exists
          THEN /\ airDf' = airFile.rows
               /\ rng' = rng
          ELSE LET g == create_sample_data(MaxSamples, 42, rng)
               IN /\ airDf' = g.df
                  /\ rng' = g.rng
    /\ airPc' = "loaded"
    /\ UNCHANGED <<exceptAir, airFile, airMin, airMax, airClean, airFeat, airErr>>

\* df_clean = clean_airbnb_data(df, price_min, price_max); the pair
\* AirDefaultBounds is the call of load_and_prepare_data (line 191), the
\* other pairs are calls of the function with explicit bounds.
AirClean ==
    /\ airPc = "loaded"
    /\ airClean' = clean_airbnb_data(airDf, airMin, airMax)
    /\ airDf' = PassedAfterCopy(airDf, clean_airbnb_data(airDf, airMin, airMax))
    /\ airPc' = "cleaned"
    /\ UNCHANGED <<rng, exceptAir, airFile, airMin, airMax, airFeat, airErr>>

\* df_final = engineer_features(df_clean) (line 192), then the return.
AirEngineer ==
    /\ airPc = "cleaned"
    /\ LET r == engineer_features(airClean)
       IN /\ airErr' = r.err
          /\ airFeat' = r.df
          /\ airClean' = PassedAfterCopy(airClean, r.written)
          /\ airPc' = IF r.err = "none" THEN "returned" ELSE "raised"
    /\ UNCHANGED <<rng, exceptAir, airFile, airDf, airMin, airMax>>

\* visualization_utils.py run as a script, line 283: sample_df =
\* create_sample_data(), with its defaults; the script is given no file and
\* no price bounds.
VizSample ==
    /\ airPc = "start"
    /\ airFile = NoFile
    /\ <<airMin, airMax>> = AirDefaultBounds
    /\ LET g == create_sample_data(MaxSamples, 42, rng)
       IN /\ airDf' = g.df
          /\ rng' = g.rng
    /\ airPc' = "sampled"
    /\ UNCHANGED <<exceptAir, airFile, airMin, airMax, airClean, airFeat, airErr>>

\* visualization_utils.py, lines 284-288: processed_df =
\* engineer_features(sample_df), then save_all_visualizations(processed_df)
\* writes the charts.
VizEngineer ==
    /\ airPc = "sampled"
    /\ LET r == engineer_features(airDf)
       IN /\ airErr' = r.err
          /\ airFeat' = r.df
          /\ airDf' = PassedAfterCopy(airDf, r.written)
          /\ airPc' = IF r.err = "none" THEN "charted" ELSE "raised"
    /\ UNCHANGED <<rng, exceptAir, airFile, airMin, airMax, airClean>>

----------------------------------------------------------------------------
(* Exact arithmetic.  A float that need not be an integer is a fraction    *)
(* <<n, d>> with d > 0 in lowest terms.                                    *)

RECURSIVE Gcd(_, _)
Gcd(a, b) == IF b = 0 THEN a ELSE Gcd(b, a % b)

Abs(a) == IF a < 0 THEN -a ELSE a

Frac(n, d) == LET g == Gcd(Abs(n), d) IN <<n \div g, d \div g>>

FracLess(x, y) == x[1] * y[2] < y[1] * x[2]

FracAdd(x, y) == Frac(x[1] * y[2] + y[1] * x[2], x[2] * y[2])

\* x * k / m for integers k and m > 0.
FracScale(x, k, m) == Frac(x[1] * k, x[2] * m)

\* Sorting, as Series.median and Series.quantile do first: insertion into a
\* sorted sequence.
RECURSIVE InsertSorted(_, _)
InsertSorted(x, s) ==
    IF s = <<>> THEN <<x>>
    ELSE IF FracLess(x, Head(s)) THEN <<x>> \o s
         ELSE <<Head(s)>> \o InsertSorted(x, Tail(s))

RECURSIVE Sorted(_)
Sorted(s) == IF s = <<>> THEN <<>> ELSE InsertSorted(Head(s), Sorted(Tail(s)))

\* Series.median() of the values present: the middle one, or the mean of
\* the two middle ones; NaN when none is present.
Median(vals) ==
    LET s == Sorted(vals)
        n == Len(s)
    IN IF n = 0 THEN NaN
       ELSE IF n % 2 = 1 THEN Num(s[(n + 1) \div 2])
       ELSE Num(FracScale(FracAdd(s[n \div 2], s[n \div 2 + 1]), 1, 2))

\* Series.quantile(0.75), linear interpolation: position (n - 1) * 3/4
\* (counted from 0) in the sorted values; NaN on an empty column.
Quantile75(vals) ==
    LET s == Sorted(vals)
        n == Len(s)
        lo == (3 * (n - 1)) \div 4
        r == (3 * (n - 1)) % 4
    IN IF n = 0 THEN NaN
       ELSE IF r = 0 THEN Num(s[lo + 1])
       ELSE Num(FracAdd(s[lo + 1],
                        FracScale(FracAdd(s[lo + 2], <<-s[lo + 1][1], s[lo + 1][2]>>),
                                  r, 4)))

----------------------------------------------------------------------------
(* Telco: Telco-Customer-Churn/scripts/data_preprocessing.py               *)

\* A text cell is the sequence of its characters.
Digits == <<"0", "1", "2", "3", "4", "5", "6", "7", "8", "9">>
IsDigit(c) == \E i \in DOMAIN Digits : Digits[i] = c
DigitValue(c) == (CHOOSE i \in DOMAIN Digits : Digits[i] = c) - 1

RECURSIVE StripLeft(_)
StripLeft(t) == IF t # <<>> /\ Head(t) = " " THEN StripLeft(Tail(t)) ELSE t

RECURSIVE StripRight(_)
StripRight(t) ==
    IF t # <<>> /\ t[Len(t)] = " " THEN StripRight(SubSeq(t, 1, Len(t) - 1)) ELSE t

\* The number a digit string denotes.
RECURSIVE DigitsValue(_)
DigitsValue(t) ==
    IF t = <<>> THEN 0
    ELSE 10 * DigitsValue(SubSeq(t, 1, Len(t) - 1)) + DigitValue(t[Len(t)])

\* pd.to_numeric on one text cell (errors='raise'): the empty string is
\* missing; surrounding blanks are skipped; an optional sign and digits give
\* the number; anything else raises ValueError.
ToNumeric(t) ==
    LET core == StripRight(StripLeft(t))
        signed == core # <<>> /\ Head(core) \in {"-", "+"}
        body == IF signed THEN Tail(core) ELSE core
    IN IF t = <<>> THEN [err |-> "none", cell |-> NaN]
       ELSE IF body # <<>> /\ \A i \in DOMAIN body : IsDigit(body[i])
           THEN [err |-> "none",
                 cell |-> Num(<<IF signed /\ Head(core) = "-"
                                   THEN -DigitsValue(body) ELSE DigitsValue(body), 1>>)]
       ELSE [err |-> "ValueError", cell |-> NaN]

ServiceCols == <<"PhoneService", "MultipleLines", "InternetService",
                 "OnlineSecurity", "OnlineBackup", "DeviceProtection",
                 "TechSupport", "StreamingTV", "StreamingMovies">>

\* The service columns other than InternetService, in two settings.
TelServiceProfiles ==
    {[PhoneService |-> "Yes", MultipleLines |-> "No", OnlineSecurity |-> "No",
      OnlineBackup |-> "No", DeviceProtection |-> "No", TechSupport |-> "No",
      StreamingTV |-> "No", StreamingMovies |-> "No"],
     [PhoneService |-> "Yes", MultipleLines |-> "Yes", OnlineSecurity |-> "Yes",
      OnlineBackup |-> "No", DeviceProtection |-> "No internet service",
      TechSupport |-> "No", StreamingTV |-> "Yes", StreamingMovies |-> "No"]}

TelRow(contract, tenure, monthly, total, internet, payment, senior, partner, svc) ==
    [idx |-> 0, SeniorCitizen |-> senior, Partner |-> partner, Dependents |-> "No",
     tenure |-> tenure, MonthlyCharges |-> monthly, TotalCharges |-> total,
     Contract |-> contract, PaymentMethod |-> payment,
     PhoneService |-> svc.PhoneService, MultipleLines |-> svc.MultipleLines,
     InternetService |-> internet, OnlineSecurity |-> svc.OnlineSecurity,
     OnlineBackup |-> svc.OnlineBackup, DeviceProtection |-> svc.DeviceProtection,
     TechSupport |-> svc.TechSupport, StreamingTV |-> svc.StreamingTV,
     StreamingMovies |-> svc.StreamingMovies]

\* A TotalCharges cell: in a column read as text (dtype object) its
\* characters, in a float64 column its number (or NaN).
TextCell(chars) == [text |-> chars, num |-> NaN]
FloatCell(c) == [text |-> <<>>, num |-> c]

\* The TotalCharges cells of the CSV files, by column type.
TotalCell(dtype, what) ==
    IF dtype = "object"
    THEN CASE what = "blank" -> TextCell(<<" ">>)
           [] what = "two blanks" -> TextCell(<<" ", " ">>)
           [] what = "letters" -> TextCell(<<"a">>)
           [] what = "zero" -> TextCell(<<"0">>)
           [] what = "minus one" -> TextCell(<<"-", "1">>)
           [] OTHER -> TextCell(<<"2", "0">>)
    ELSE CASE what = "blank" -> FloatCell(NaN)
           [] what = "zero" -> FloatCell(Num(<<0, 1>>))
           [] what = "minus one" -> FloatCell(Num(<<-1, 1>>))
           [] OTHER -> FloatCell(Num(<<20, 1>>))

TelContracts == {"Month-to-month", "One year", "Two year"}
TelTenures == {0, 6, 12, 13, 24, 25, 48, 49}
TelCharges == {20, 50, 90}
TelInternet == {"DSL", "Fiber optic", "No"}
TelPayments == {"Electronic check", "Mailed check"}

\* The first row of a CSV: every combination of the columns the risk score
\* reads, and every tenure boundary with the service columns and
\* TotalCharges varied.
TelFirstRows(dtype) ==
    {TelRow(c, t, m, TotalCell(dtype, "zero"), i, p, 1, "Yes",
            CHOOSE svc \in TelServiceProfiles : svc.MultipleLines = "No") :
        c \in TelContracts, t \in {6, 12, 13}, m \in TelCharges,
        i \in {"DSL", "Fiber optic"}, p \in TelPayments}
    \cup
    {TelRow("Two year", t, 50, TotalCell(dtype, w), i, "Mailed check", 0, "No", svc) :
        t \in TelTenures, w \in {"zero", "minus one"}, i \in {"No", "DSL"},
        svc \in TelServiceProfiles}

\* The texts only a text column can hold: more than one blank, and
\* letters.
TelUnparseable(dtype) == IF dtype = "object" THEN {"two blanks", "letters"} ELSE {}

\* The other rows: one customer with the charges varied.
TelOtherRows(dtype) ==
    {TelRow("Two year", 24, m, TotalCell(dtype, w), "DSL", "Mailed check", 1, "Yes",
            CHOOSE svc \in TelServiceProfiles : svc.MultipleLines = "No") :
        m \in TelCharges, w \in {"blank", "zero"}}

\* Three customers, the third with the cells of the first, or with them once
\* a missing TotalCharges is filled, or with a text that is no number.
TelRepeatedRows(dtype) ==
    LET Customer(m, w) ==
            TelRow("Two year", 24, m, TotalCell(dtype, w), "DSL", "Mailed check",
                   1, "Yes",
                   CHOOSE svc \in TelServiceProfiles : svc.MultipleLines = "No")
    IN {<<Customer(50, a), Customer(20, "zero"), Customer(50, c)>> :
           a \in {"zero", "blank"} \cup TelUnparseable(dtype),
           c \in {"zero", "blank"} \cup TelUnparseable(dtype)}

TelFiles ==
    {[exists |-> TRUE, dtype |-> dt, rows |-> WithIndex(rows)] :
        dt \in {"object"}, rows \in TelRepeatedRows("object")}
    \cup
    {[exists |-> TRUE, dtype |-> dt, rows |-> WithIndex(rows)] :
        dt \in {"float64"}, rows \in TelRepeatedRows("float64")}
    \cup
    {[exists |-> TRUE, dtype |-> dt, rows |-> WithIndex(<<first>> \o rest)] :
        dt \in {"object"}, first \in TelFirstRows("object"),
        rest \in UNION {[1..n -> TelOtherRows("object")] : n \in 0..MaxOthers}}
    \cup
    {[exists |-> TRUE, dtype |-> dt, rows |-> WithIndex(<<first>> \o rest)] :
        dt \in {"float64"}, first \in TelFirstRows("float64"),
        rest \in UNION {[1..n -> TelOtherRows("float64")] : n \in 0..MaxOthers}}

TelNoFile == [exists |-> FALSE, dtype |-> "object", rows |-> <<>>]

\* drop_duplicates(): a row goes when an earlier row has the same cells in
\* every column (the index is no column).
SameCells(a, b) == [a EXCEPT !.idx = 0] = [b EXCEPT !.idx = 0]

\* drop_duplicates keeping the last of the equal rows.
DropDuplicatesKeepLast(df) ==
    LET keep == {i \in DOMAIN df :
                    \A j \in (i + 1)..Len(df) : ~SameCells(df[j], df[i])}
        Kept(r) == \E i \in keep : df[i] = r
    IN SelectSeq(df, Kept)

\* DataFrame.drop_duplicates(): of the rows equal in every column the first
\* is kept; missing values count as equal.
DropDuplicates(df) ==
    LET keep == {i \in DOMAIN df : \A j \in 1..(i - 1) : ~SameCells(df[j], df[i])}
        Kept(r) == \E i \in keep : df[i] = r
    IN SelectSeq(df, Kept)

\* clean_data, lines 40-45, on a text column: ' ' becomes NaN, to_numeric
\* parses the rest (and raises on what it cannot parse), the median of the
\* values present fills the missing ones.
CoerceTotalCharges(df) ==
    LET parsed == [i \in DOMAIN df |->
                     IF df[i].TotalCharges.text = <<" ">>
                     THEN [err |-> "none", cell |-> NaN]
                     ELSE ToNumeric(df[i].TotalCharges.text)]
        bad == \E i \in DOMAIN df : parsed[i].err # "none"
        present == SelectSeq([i \in DOMAIN df |-> parsed[i].cell],
                             LAMBDA c : ~IsNa(c))
        median == Median([i \in DOMAIN present |-> Val(present[i])])
    IN [err |-> IF bad THEN "ValueError" ELSE "none",
        df |-> IF bad THEN <<>>
               ELSE [i \in DOMAIN df |->
                       [df[i] EXCEPT !.TotalCharges =
                           FloatCell(IF IsNa(parsed[i].cell) THEN median
                                     ELSE parsed[i].cell)]]]

\* TelcoDataPreprocessor.clean_data(df): the exception raised, or the frame
\* returned, and the frame df_clean as written before drop_duplicates
\* returns another one (with the blanks replaced, when to_numeric raises).
clean_data(df, dtype) ==
    LET coerced == IF dtype = "object" THEN CoerceTotalCharges(df)
                   ELSE [err |-> "none", df |-> df]
    IN [err |-> coerced.err,
        df |-> IF coerced.err = "none" THEN DropDuplicates(coerced.df) ELSE <<>>,
        written |-> IF coerced.err = "none" THEN coerced.df
                    ELSE [i \in DOMAIN df |->
                             IF df[i].TotalCharges.text = <<" ">>
                             THEN [df[i] EXCEPT !.TotalCharges = FloatCell(NaN)]
                             ELSE df[i]]]

TenureBins == <<0, 12, 24, 48, Inf>>
TenureLabels == <<"New (0-12m)", "Growing (13-24m)", "Mature (25-48m)", "Loyal (48m+)">>
\* Risk bins whose last edge stops short of the largest score.
RiskBinsShort == <<-1, 2, 4, 7>>
RiskBins == <<-1, 2, 4, 8>>
RiskLabels == <<"Low Risk", "Medium Risk", "High Risk">>

\* x > q and x >= q for a charge x and the quantile cell q; a comparison
\* with NaN is False.
ChargeAbove(x, q) == ~IsNa(q) /\ FracLess(Val(q), <<x, 1>>)
ChargeAtLeast(x, q) == ~IsNa(q) /\ ~FracLess(<<x, 1>>, Val(q))

\* count_services(row): the listed columns holding exactly 'Yes'.
count_services(row) ==
    Cardinality({i \in DOMAIN ServiceCols :
        ServiceCols[i] \in DOMAIN row /\ row[ServiceCols[i]] = "Yes"})

\* A risk score that weighs a month-to-month contract like a one-year one.
calculate_risk_score_flat(row, charges_75th) ==
    (IF row.Contract \in {"Month-to-month", "One year"} THEN 1 ELSE 0)
    + (IF row.tenure <= 12 THEN 2 ELSE 0)
    + (IF ChargeAbove(row.MonthlyCharges, charges_75th) THEN 1 ELSE 0)
    + (IF row.InternetService = "Fiber optic" THEN 1 ELSE 0)
    + (IF row.PaymentMethod = "Electronic check" THEN 1 ELSE 0)

\* A risk score that gives a short tenure 3 points, so that the sum can
\* pass the last bin edge.
calculate_risk_score_tenure3(row, charges_75th) ==
    (IF row.Contract = "Month-to-month" THEN 3
     ELSE IF row.Contract = "One year" THEN 1 ELSE 0)
    + (IF row.tenure <= 12 THEN 3 ELSE 0)
    + (IF ChargeAbove(row.MonthlyCharges, charges_75th) THEN 1 ELSE 0)
    + (IF row.InternetService = "Fiber optic" THEN 1 ELSE 0)
    + (IF row.PaymentMethod = "Electronic check" THEN 1 ELSE 0)

\* calculate_risk_score(row), with charges_75th of the enclosing call.
calculate_risk_score(row, charges_75th) ==
    (IF row.Contract = "Month-to-month" THEN 3
     ELSE IF row.Contract = "One year" THEN 1 ELSE 0)
    + (IF row.tenure <= 12 THEN 2 ELSE 0)
    + (IF ChargeAbove(row.MonthlyCharges, charges_75th) THEN 1 ELSE 0)
    + (IF row.InternetService = "Fiber optic" THEN 1 ELSE 0)
    + (IF row.PaymentMethod = "Electronic check" THEN 1 ELSE 0)

\* A tenure binning that closes the bins on the left: [0,12), [12,24), ...
TenureGroupLeftClosed(tenure) ==
    IF tenure < 0 THEN NA
    ELSE IF tenure < 12 THEN TenureLabels[1]
    ELSE IF tenure < 24 THEN TenureLabels[2]
    ELSE IF tenure < 48 THEN TenureLabels[3]
    ELSE TenureLabels[4]

\* The pd.cut call of Tenure_Group on one tenure.
TenureGroup(tenure) == Cut(Num(tenure), TenureBins, TenureLabels, FALSE)

\* A ratio that leaves the guard out of the denominator.
MonthlyToTotalRatioUnguarded(monthly, total) ==
    IF IsNa(total) THEN NaN
    ELSE Num([num |-> monthly * Val(total)[2], den |-> Val(total)[1]])

\* MonthlyCharges / (TotalCharges + 1) for TotalCharges = n/d: the fraction
\* with numerator MonthlyCharges * d and denominator n + d, which is
\* (TotalCharges + 1) * d; den = 0 is the division by zero (numpy gives inf
\* or nan and does not raise).  NaN when TotalCharges is missing.
MonthlyToTotalRatio(monthly, total) ==
    IF IsNa(total) THEN NaN
    ELSE Num([num |-> monthly * Val(total)[2], den |-> Val(total)[1] + Val(total)[2]])

\* .astype(str).replace({'True': 'Yes', 'False': 'No'}) on a boolean.
BoolText(b) == IF b THEN "True" ELSE "False"
YesNo(text) == IF text = "True" THEN "Yes" ELSE IF text = "False" THEN "No" ELSE text

TelFeatureRow(row, charges_75th) ==
    [base |-> row,
     Is_Senior |-> IF row.SeniorCitizen = 1 THEN "Yes" ELSE "No",
     Tenure_Group |-> TenureGroup(row.tenure),
     High_Charges |->
         IF ChargeAtLeast(row.MonthlyCharges, charges_75th) THEN "Yes" ELSE "No",
     Service_Count |-> count_services(row),
     Monthly_to_Total_Ratio |->
         MonthlyToTotalRatio(row.MonthlyCharges, row.TotalCharges.num),
     Has_Partner_Dependents |->
         YesNo(BoolText(row.Partner = "Yes" \/ row.Dependents = "Yes")),
     Internet_Plus_Streaming |->
         YesNo(BoolText(row.InternetService # "No"
                        /\ (row.StreamingTV = "Yes" \/ row.StreamingMovies = "Yes"))),
     Risk_Score |-> calculate_risk_score(row, charges_75th),
     Risk_Category |->
         Cut(Num(calculate_risk_score(row, charges_75th)), RiskBins, RiskLabels, FALSE)]

\* charges_75th = df_features['MonthlyCharges'].quantile(0.75)
Charges75th(df) == Quantile75([i \in DOMAIN df |-> <<df[i].MonthlyCharges, 1>>])

\* TelcoDataPreprocessor.engineer_features(df); a feature row keeps the
\* source columns in 'base'.
tel_engineer_features(df) ==
    [i \in DOMAIN df |-> TelFeatureRow(df[i], Charges75th(df))]

\* load_and_preprocess_data, line 264: pd.read_csv raises FileNotFoundError
\* when the path does not exist, and nothing in the function catches it.
TelLoad ==
    /\ telPc = "start"
    /\ IF telFile.exists
          THEN /\ telRaw' = telFile.rows
               /\ telPc' = "loaded"
               /\ telErr' = telErr
          ELSE /\ telRaw' = telRaw
               /\ telPc' = "raised"
               /\ telErr' = "FileNotFoundError"
    /\ UNCHANGED <<rng, exceptTel, telFile, telClean, telFeat, telQ75>>

\* df_clean = preprocessor.clean_data(df_raw), line 268.
TelClean ==
    /\ telPc = "loaded"
    /\ LET r == clean_data(telRaw, telFile.dtype)
       IN /\ telErr' = r.err
          /\ telClean' = r.df
          /\ telRaw' = PassedAfterCopy(telRaw, r.written)
          /\ telPc' = IF r.err = "none" THEN "cleaned" ELSE "raised"
    /\ UNCHANGED <<rng, exceptTel, telFile, telFeat, telQ75>>

\* df_features = preprocessor.engineer_features(df_clean), line 271.
TelEngineer ==
    /\ telPc = "cleaned"
    /\ telQ75' = Charges75th(telClean)
    /\ telFeat' = tel_engineer_features(telClean)
    /\ telClean' = PassedAfterCopy(telClean, tel_engineer_features(telClean))
    /\ telPc' = "engineered"
    /\ UNCHANGED <<rng, exceptTel, telFile, telRaw, telErr>>

----------------------------------------------------------------------------
(* Instacart: the five tables, and the pandas operations the three         *)
(* Instacart scripts share.                                                *)

\* The five CSV files of ../data/raw, in the order the scripts read them.
InsFileNames == <<"orders", "products", "order_products_prior",
                  "departments", "aisles">>

OrderRow(id, user, number, dow, hour, days) ==
    [order_id |-> Num(id), user_id |-> Num(user), order_number |-> Num(number),
     order_dow |-> dow, order_hour_of_day |-> Num(hour),
     days_since_prior_order |-> days]
ProductRow(id, name, aisle, dept) ==
    [product_id |-> Num(id), product_name |-> name, aisle_id |-> Num(aisle),
     department_id |-> Num(dept)]
LineRow(order, product, pos, reordered) ==
    [order_id |-> Num(order), product_id |-> Num(product),
     add_to_cart_order |-> Num(pos), reordered |-> Num(reordered)]
DepartmentRow(id, name) == [department_id |-> Num(id), department |-> name]
AisleRow(id, name) == [aisle_id |-> Num(id), aisle |-> name]

\* The columns a left merge adds, all missing, to a row without a match.
ProductNulls == [product_name |-> NA, aisle_id |-> NaN, department_id |-> NaN]
DepartmentNulls == [department |-> NA]
AisleNulls == [aisle |-> NA]
OrderNulls ==
    [user_id |-> NaN, order_number |-> NaN, order_dow |-> NaN,
     order_hour_of_day |-> NaN, days_since_prior_order |-> NaN]

\* An inner join: the rows of left without a match are dropped.
RECURSIVE LeftMergeInner(_, _, _, _)
LeftMergeInner(left, right, key, nulls) ==
    IF left = <<>> THEN <<>>
    ELSE LET l == Head(left)
             m == SelectSeq(right, LAMBDA r : r[key] = l[key])
         IN [j \in DOMAIN m |-> l @@ m[j]]
            \o LeftMergeInner(Tail(left), right, key, nulls)

\* left.merge(right, on=key, how='left'): the rows of left in their order,
\* each once per matching row of right (in right's order), or once with the
\* columns of right missing when nothing matches.
RECURSIVE LeftMerge(_, _, _, _)
LeftMerge(left, right, key, nulls) ==
    IF left = <<>> THEN <<>>
    ELSE LET l == Head(left)
             m == SelectSeq(right, LAMBDA r : r[key] = l[key])
             rows == IF m = <<>> THEN <<l @@ nulls>>
                     ELSE [j \in DOMAIN m |-> l @@ m[j]]
         IN rows \o LeftMerge(Tail(left), right, key, nulls)

\* Series.nunique() of a numeric column: missing values are not counted.
NUnique(df, col) == Cardinality({df[i][col] : i \in DOMAIN df} \ {NaN})

\* Series.count() of a numeric column.
Count(df, col) == Cardinality({i \in DOMAIN df : ~IsNa(df[i][col])})

RECURSIVE Sum(_, _)
Sum(df, col) ==
    IF df = <<>> THEN 0
    ELSE (IF IsNa(Head(df)[col]) THEN 0 ELSE Val(Head(df)[col]))
         + Sum(Tail(df), col)

\* Series.mean() of a numeric column, an exact fraction; NaN of no values.
Mean(df, col) ==
    IF Count(df, col) = 0 THEN NaN
    ELSE Num(Frac(Sum(df, col), Count(df, col)))

RECURSIVE Pow10(_)
Pow10(k) == IF k = 0 THEN 1 ELSE 10 * Pow10(k - 1)

\* round(x, k) of a fraction x: the nearest multiple of 10^-k, a tie going
\* to the even one.
RoundFrac(x, k) ==
    LET m == x[1] * Pow10(k)
        q == m \div x[2]
        r == m % x[2]
        up == 2 * r > x[2] \/ (2 * r = x[2] /\ q % 2 = 1)
    IN Frac(IF up THEN q + 1 ELSE q, Pow10(k))

\* DataFrame.round(k) on one cell holding a fraction.
RoundCell(c, k) == IF IsNa(c) THEN NaN ELSE Num(RoundFrac(Val(c), k))

\* sort_values(col, ascending=False) of a short frame, col holding counts:
\* descending, rows with equal counts staying in their order.
RECURSIVE InsertDesc(_, _, _)
InsertDesc(row, sorted, col) ==
    IF sorted = <<>> THEN <<row>>
    ELSE IF Head(sorted)[col] >= row[col]
        THEN <<Head(sorted)>> \o InsertDesc(row, Tail(sorted), col)
    ELSE <<row>> \o sorted

\* The frame as the grouping left it, not sorted.
SortKeepsOrder(df, col) == df

RECURSIVE SortDesc(_, _)
SortDesc(df, col) ==
    IF df = <<>> THEN <<>>
    ELSE InsertDesc(df[Len(df)], SortDesc(SubSeq(df, 1, Len(df) - 1), col), col)

\* The department names of the simulated tables, department_id 1, 2, ...
\* in this order (complete_4p_analysis.py).
CompleteDepartments ==
    <<"produce", "dairy eggs", "snacks", "beverages", "frozen", "pantry",
      "bakery", "canned goods", "deli", "dry goods pasta", "bulk",
      "personal care", "meat seafood", "other", "missing", "pharmacy",
      "babies", "household", "pets", "alcohol", "international">>

\* The same of instacart_analysis_demo.py.
DemoDepartments ==
    <<"snacks", "cookies cakes", "candy chocolate", "chips pretzels",
      "beverages", "dairy eggs", "produce", "meat seafood", "bakery",
      "frozen", "pantry">>

\* product_names of the simulated products, repeated cyclically
\* (complete_4p_analysis.py).
CompleteProductNames ==
    <<"Banana", "Bag of Organic Bananas", "Organic Strawberries",
      "Organic Baby Spinach", "Organic Hass Avocado", "Organic Avocado",
      "Large Lemon", "Strawberries", "Limes", "Organic Whole Milk",
      "Organic Raspberries", "Organic Yellow Onion", "Organic Garlic",
      "Organic Fuji Apple", "Organic Lemon", "Apple Honeycrisp Organic",
      "Honeycrisp Apples", "Organic Blueberries", "Cucumber Kirby",
      "Organic Cucumber", "Organic Celery", "Organic Lime",
      "Organic Zucchini Squash", "Organic Broccoli", "Organic Red Onion",
      "Organic Carrots", "Organic Gala Apples",
      "Organic Granny Smith Apples", "Organic Sweet Red Pepper",
      "Seedless Red Grapes", "Organic Grape Tomatoes",
      "Organic Roma Tomato", "Organic Cherry Tomatoes",
      "Organic Green Bell Pepper", "Organic Orange Bell Pepper",
      "Organic Asparagus", "Organic Cauliflower", "Organic Kale",
      "Organic Red Bell Pepper", "Yellow Onions Bag">>

\* The same of instacart_analysis_demo.py.
DemoProductNames ==
    <<"Organic Banana", "Bag of Organic Bananas", "Organic Strawberries",
      "Organic Baby Spinach", "Organic Hass Avocado", "Organic Avocado",
      "Large Lemon", "Strawberries", "Lime", "Organic Whole Milk",
      "Organic Raspberries", "Organic Yellow Onion", "Organic Garlic",
      "Banana", "Organic Fuji Apple", "Organic Lemon", "Apple Honeycrisp",
      "Honeycrisp Apple", "Organic Blueberries", "Cucumber Kirby">>

\* groupby sorts its groups by key: the department names in sorted order.
AlphabeticalDepartments ==
    <<"alcohol", "babies", "bakery", "beverages", "bulk",
      "candy chocolate", "canned goods", "chips pretzels",
      "cookies cakes", "dairy eggs", "deli", "dry goods pasta", "frozen",
      "household", "international", "meat seafood", "missing", "other",
      "pantry", "personal care", "pets", "pharmacy", "produce", "snacks">>

\* The product names in sorted order.
AlphabeticalProducts ==
    <<"Apple Honeycrisp", "Apple Honeycrisp Organic",
      "Bag of Organic Bananas", "Banana", "Cucumber Kirby",
      "Honeycrisp Apple", "Honeycrisp Apples", "Large Lemon", "Lime",
      "Limes", "Organic Asparagus", "Organic Avocado",
      "Organic Baby Spinach", "Organic Banana", "Organic Blueberries",
      "Organic Broccoli", "Organic Carrots", "Organic Cauliflower",
      "Organic Celery", "Organic Cherry Tomatoes", "Organic Cucumber",
      "Organic Fuji Apple", "Organic Gala Apples", "Organic Garlic",
      "Organic Granny Smith Apples", "Organic Grape Tomatoes",
      "Organic Green Bell Pepper", "Organic Hass Avocado", "Organic Kale",
      "Organic Lemon", "Organic Lime", "Organic Orange Bell Pepper",
      "Organic Raspberries", "Organic Red Bell Pepper",
      "Organic Red Onion", "Organic Roma Tomato", "Organic Strawberries",
      "Organic Sweet Red Pepper", "Organic Whole Milk",
      "Organic Yellow Onion", "Organic Zucchini Squash",
      "Seedless Red Grapes", "Strawberries", "Yellow Onions Bag">>

\* The dictionary of the order_dow_name map, indexed by order_dow + 1.
DayNames == <<"Sunday", "Monday", "Tuesday", "Wednesday", "Thursday",
              "Friday", "Saturday">>
AlphabeticalDays == <<"Friday", "Monday", "Saturday", "Sunday", "Thursday",
                      "Tuesday", "Wednesday">>

\* Series.map(dict) on one cell: a key outside the dictionary gives NaN.
DayName(dow) ==
    IF IsNa(dow) \/ Val(dow) \notin 0..6 THEN NA ELSE DayNames[Val(dow) + 1]

HourBins == <<0, 9, 14, 19, 24>>
HourLabels == <<"Morning", "Midday", "Evening", "Night">>
SegmentBins == <<0, 2, 5, 10, Inf>>
SegmentLabels == <<"New", "Occasional", "Regular", "VIP">>

\* groupby('order_id').size() merged back on order_id: the number of rows
\* of the frame with the row's order_id.
BasketSize(df, row) ==
    IF IsNa(row.order_id) THEN NaN
    ELSE Num(Cardinality({i \in DOMAIN df : df[i].order_id = row.order_id}))

\* create_master_dataset of the two analysis scripts: four left joins from
\* the order lines, then the engineered columns; customer_segment is added
\* by complete_4p_analysis.py only.
create_master_dataset(orders, products, order_products_prior, departments, aisles, script) ==
    LET p == LeftMerge(order_products_prior, products, "product_id",
                       ProductNulls)
        d == LeftMerge(p, departments, "department_id", DepartmentNulls)
        a == LeftMerge(d, aisles, "aisle_id", AisleNulls)
        master_df == LeftMerge(a, orders, "order_id", OrderNulls)
        Common(r) ==
            [order_dow_name |-> DayName(r.order_dow),
             hour_category |->
                 Cut(r.order_hour_of_day, HourBins, HourLabels, TRUE),
             basket_size |-> BasketSize(master_df, r)]
            @@ [r EXCEPT !.days_since_prior_order = FillNa(@, 0)]
        Segment(r) ==
            [customer_segment |->
                 Cut(r.order_number, SegmentBins, SegmentLabels, FALSE)]
    IN [i \in DOMAIN master_df |->
           IF script = "complete"
               THEN Common(master_df[i]) @@ Segment(master_df[i])
               ELSE Common(master_df[i])]
\* One row of the department scorecard: the aggregates of the rows of a
\* department, rounded to three decimals.  The demo script names the item
\* count total_products_sold.
DeptRow(master_df, name, script) ==
    LET g == SelectSeq(master_df, LAMBDA r : r.department = name)
    IN [department |-> name,
        unique_orders |-> NUnique(g, "order_id"),
        unique_products |-> NUnique(g, "product_id"),
        unique_customers |-> NUnique(g, "user_id"),
        avg_reorder_rate |-> RoundCell(Mean(g, "reordered"), 3),
        avg_basket_size |-> RoundCell(Mean(g, "basket_size"), 3)]
       @@ (IF script = "complete"
              THEN [total_items_sold |-> Count(g, "product_id")]
              ELSE [total_products_sold |-> Count(g, "product_id")])

\* One row of top_products: a (product_name, department) group.
ProductGroupRow(master_df, name, dept, script) ==
    LET g == SelectSeq(master_df, LAMBDA r :
                 r.product_name = name /\ r.department = dept)
    IN [product_name |-> name, department |-> dept,
        unique_orders |-> NUnique(g, "order_id"),
        unique_customers |-> NUnique(g, "user_id")]
       @@ (IF script = "complete"
              THEN [reorder_rate |-> RoundCell(Mean(g, "reordered"), 3)]
              ELSE [avg_reorder_rate |-> RoundCell(Mean(g, "reordered"), 3)])

\* One row of dow_analysis: a frame of three aggregates in the complete
\* script, a series of order counts in the demo script.
DowRow(master_df, name, script) ==
    LET g == SelectSeq(master_df, LAMBDA r : r.order_dow_name = name)
    IN IF script = "complete"
          THEN [order_dow_name |-> name,
                total_orders |-> NUnique(g, "order_id"),
                avg_basket_size |-> RoundCell(Mean(g, "basket_size"), 3),
                reorder_rate |-> RoundCell(Mean(g, "reordered"), 3)]
          ELSE [order_dow_name |-> name,
                total_orders |-> NUnique(g, "order_id")]

\* One row of hour_analysis.
HourRow(master_df, hour, script) ==
    LET g == SelectSeq(master_df, LAMBDA r : r.order_hour_of_day = Num(hour))
    IN IF script = "complete"
          THEN [order_hour_of_day |-> hour,
                total_orders |-> NUnique(g, "order_id"),
                avg_basket_size |-> RoundCell(Mean(g, "basket_size"), 3)]
          ELSE [order_hour_of_day |-> hour,
                total_orders |-> NUnique(g, "order_id")]

\* The hours of the day in increasing order, the order of the hour groups.
HoursOfDay == [i \in 1..24 |-> i - 1]

\* The (product_name, department) pairs in sorted order.
RECURSIVE ProductDeptPairs(_)
ProductDeptPairs(names) ==
    IF names = <<>> THEN <<>>
    ELSE [j \in DOMAIN AlphabeticalDepartments |->
             <<Head(names), AlphabeticalDepartments[j]>>]
         \o ProductDeptPairs(Tail(names))

\* perform_4p_analysis (analyze_4p_performance in the demo script): the
\* groups of each table are the keys present in the master dataset, in
\* sorted order (rows with a missing key belong to no group); the product,
\* department and day tables are then sorted by their order counts.
perform_4p_analysis(master_df, script) ==
    LET Has(col, v) == \E i \in DOMAIN master_df : master_df[i][col] = v
        depts == SelectSeq(AlphabeticalDepartments,
                           LAMBDA n : Has("department", n))
        pairs == SelectSeq(ProductDeptPairs(AlphabeticalProducts),
                     LAMBDA q : \E i \in DOMAIN master_df :
                         /\ master_df[i].product_name = q[1]
                         /\ master_df[i].department = q[2])
        days == SelectSeq(AlphabeticalDays,
                          LAMBDA n : Has("order_dow_name", n))
        hours == SelectSeq(HoursOfDay,
                           LAMBDA h : Has("order_hour_of_day", Num(h)))
    IN [top_products |->
            SortDesc([j \in DOMAIN pairs |->
                ProductGroupRow(master_df, pairs[j][1], pairs[j][2], script)],
                "unique_orders"),
        dept_performance |->
            SortDesc([j \in DOMAIN depts |->
                DeptRow(master_df, depts[j], script)], "unique_orders"),
        dow_analysis |->
            SortDesc([j \in DOMAIN days |->
                DowRow(master_df, days[j], script)], "total_orders"),
        hour_analysis |->
            [j \in DOMAIN hours |-> HourRow(master_df, hours[j], script)]]
\* The two order counts of the weekend analysis: isin([0, 6]) is False on a
\* missing order_dow, so its negation keeps those rows.
IsWeekend(row) == row.order_dow \in {Num(0), Num(6)}
WeekendOrders(master_df) == NUnique(SelectSeq(master_df, IsWeekend), "order_id")
\* A weekday count that leaves out the rows without a known day.
WeekdayOrdersKnownDay(master_df) ==
    NUnique(SelectSeq(master_df, LAMBDA r :
                ~IsNa(r.order_dow) /\ ~IsWeekend(r)), "order_id")
WeekdayOrders(master_df) ==
    NUnique(SelectSeq(master_df, LAMBDA r : ~IsWeekend(r)), "order_id")

\* A lift that forgets the percentage.
WeekendLiftRatio(weekend_orders, weekday_orders) ==
    IF weekday_orders > 0
        THEN Frac(weekend_orders - weekday_orders, weekday_orders)
    ELSE <<0, 1>>

\* weekend_lift of generate_executive_summary, an exact fraction.
WeekendLift(weekend_orders, weekday_orders) ==
    IF weekday_orders > 0
        THEN Frac((weekend_orders - weekday_orders) * 100, weekday_orders)
    ELSE <<0, 1>>

\* The first row of the frame, whatever its count.
IdxFirst(df, col) == df[1]

\* DataFrame.idxmax of a count column: the first row holding the maximum.
IdxMax(df, col) ==
    df[CHOOSE i \in DOMAIN df :
          /\ \A j \in DOMAIN df : df[j][col] <= df[i][col]
          /\ \A j \in 1..(i - 1) : df[j][col] < df[i][col]]

\* Series.max() of a column of fractions.
ColMax(df, col) ==
    LET vals == {df[i][col] : i \in DOMAIN df} \ {NaN}
    IN IF vals = {} THEN NaN
       ELSE CHOOSE c \in vals : \A o \in vals : ~FracLess(Val(c), Val(o))

RECURSIVE FracSum(_, _)
FracSum(df, col) ==
    IF df = <<>> THEN <<0, 1>>
    ELSE IF IsNa(Head(df)[col]) THEN FracSum(Tail(df), col)
    ELSE FracAdd(Val(Head(df)[col]), FracSum(Tail(df), col))

\* Series.mean() of a column of fractions.
ColMean(df, col) ==
    IF Count(df, col) = 0 THEN NaN
    ELSE Num(FracScale(FracSum(df, col), 1, Count(df, col)))

\* generate_executive_summary: the exception it raises or "none", the
\* weekend_lift it computes, the number it prints for it ({:.1f}) and the
\* record it writes to executive_summary.csv (analysis_date left out).
\* .iloc[0] and .index[0] raise IndexError on an empty table, idxmax
\* ValueError; the demo script reads dept_performance.iloc[0] before the
\* weekend analysis, the complete script after it.  The lift is printed
\* once dept_performance.iloc[0] has been read, before .index[0] and idxmax
\* of the complete script are evaluated.
generate_executive_summary(master_df, analysis, data_source, script) ==
    LET dept_performance == analysis.dept_performance
        weekend_orders == WeekendOrders(master_df)
        weekday_orders == WeekdayOrders(master_df)
        weekend_lift == WeekendLift(weekend_orders, weekday_orders)
        err == IF dept_performance = <<>> THEN "IndexError"
               ELSE IF script = "complete" /\ analysis.dow_analysis = <<>>
                   THEN "IndexError"
               ELSE IF script = "complete" /\ analysis.hour_analysis = <<>>
                   THEN "ValueError"
               ELSE "none"
        counts == [total_orders |-> NUnique(master_df, "order_id"),
                   total_products |-> NUnique(master_df, "product_id"),
                   total_customers |-> NUnique(master_df, "user_id"),
                   top_department |-> dept_performance[1].department]
        complete ==
            counts @@
            [data_source |-> data_source,
             avg_basket_size |-> RoundCell(Mean(master_df, "basket_size"), 2),
             overall_reorder_rate |->
                 RoundCell(Mean(master_df, "reordered"), 3),
             weekend_lift |-> RoundFrac(weekend_lift, 1),
             best_day |-> analysis.dow_analysis[1].order_dow_name,
             peak_hour |->
                 IdxMax(analysis.hour_analysis, "total_orders").order_hour_of_day]
        demo ==
            counts @@
            [best_reorder_rate |-> ColMax(dept_performance, "avg_reorder_rate"),
             avg_basket_size |-> ColMean(dept_performance, "avg_basket_size"),
             weekend_lift |-> weekend_lift]
    IN [err |-> err,
        weekend_lift |-> IF err # "none" /\ script = "demo" THEN NaN
                         ELSE Num(weekend_lift),
        printed_lift |-> IF dept_performance = <<>> THEN NaN
                         ELSE Num(RoundFrac(weekend_lift, 1)),
        summary |-> IF err # "none" THEN <<>>
                    ELSE IF script = "complete" THEN <<complete>>
                    ELSE <<demo>>]
----------------------------------------------------------------------------
(* Instacart: the simulated tables.                                        *)

\* The sizes of the simulated tables (2000 orders, 480 or 200 products and
\* 8000 order lines in the analysis scripts; 100, 20 and 200 in
\* data_exploration_fixed.py), scaled down.
SimOrders == 3
SimProducts == 2
SimLines == 4

\* The support of np.random.randint(low, high): low, ..., high - 1.
Range(low, high) == [i \in 1..(high - low) |-> low + i - 1]

\* [np.nan] + list(range(1, 35)), as cells.
DaysSupport == <<NaN>> \o [i \in 1..34 |-> Num(i)]

\* f'aisle_{i}' for i = 1, 2, ..., 134.
AisleNames ==
    <<"aisle_1", "aisle_2", "aisle_3", "aisle_4", "aisle_5", "aisle_6",
      "aisle_7", "aisle_8", "aisle_9", "aisle_10", "aisle_11", "aisle_12",
      "aisle_13", "aisle_14", "aisle_15", "aisle_16", "aisle_17",
      "aisle_18", "aisle_19", "aisle_20", "aisle_21", "aisle_22",
      "aisle_23", "aisle_24", "aisle_25", "aisle_26", "aisle_27",
      "aisle_28", "aisle_29", "aisle_30", "aisle_31", "aisle_32",
      "aisle_33", "aisle_34", "aisle_35", "aisle_36", "aisle_37",
      "aisle_38", "aisle_39", "aisle_40", "aisle_41", "aisle_42",
      "aisle_43", "aisle_44", "aisle_45", "aisle_46", "aisle_47",
      "aisle_48", "aisle_49", "aisle_50", "aisle_51", "aisle_52",
      "aisle_53", "aisle_54", "aisle_55", "aisle_56", "aisle_57",
      "aisle_58", "aisle_59", "aisle_60", "aisle_61", "aisle_62",
      "aisle_63", "aisle_64", "aisle_65", "aisle_66", "aisle_67",
      "aisle_68", "aisle_69", "aisle_70", "aisle_71", "aisle_72",
      "aisle_73", "aisle_74", "aisle_75", "aisle_76", "aisle_77",
      "aisle_78", "aisle_79", "aisle_80", "aisle_81", "aisle_82",
      "aisle_83", "aisle_84", "aisle_85", "aisle_86", "aisle_87",
      "aisle_88", "aisle_89", "aisle_90", "aisle_91", "aisle_92",
      "aisle_93", "aisle_94", "aisle_95", "aisle_96", "aisle_97",
      "aisle_98", "aisle_99", "aisle_100", "aisle_101", "aisle_102",
      "aisle_103", "aisle_104", "aisle_105", "aisle_106", "aisle_107",
      "aisle_108", "aisle_109", "aisle_110", "aisle_111", "aisle_112",
      "aisle_113", "aisle_114", "aisle_115", "aisle_116", "aisle_117",
      "aisle_118", "aisle_119", "aisle_120", "aisle_121", "aisle_122",
      "aisle_123", "aisle_124", "aisle_125", "aisle_126", "aisle_127",
      "aisle_128", "aisle_129", "aisle_130", "aisle_131", "aisle_132",
      "aisle_133", "aisle_134">>

\* f'Product {i}' of data_exploration_fixed.py.
ExplorationProductNames ==
    <<"Product 1", "Product 2", "Product 3", "Product 4", "Product 5",
      "Product 6", "Product 7", "Product 8", "Product 9", "Product 10",
      "Product 11", "Product 12", "Product 13", "Product 14",
      "Product 15", "Product 16", "Product 17", "Product 18",
      "Product 19", "Product 20">>

\* The departments of data_exploration_fixed.py.
ExplorationDepartments ==
    <<"produce", "snacks", "dairy", "beverages", "frozen">>

\* n draws from a support, the first in state s: column k of a frame.
Draws(support, s, n) == [i \in 1..n |-> Pick(support, RngAt(s, i - 1))]

\* The except branch of load_or_simulate_data, entered with the generator
\* in state cur: np.random.seed(42), then the columns drawn in the order of
\* the source, each a block of consecutive draws.
SimulatedTables(script, cur) ==
    LET s0 == SeedRng(42, cur)
        o == SimOrders
        p == SimProducts
        l == SimLines
        names == IF script = "complete" THEN CompleteProductNames
                 ELSE DemoProductNames
        depts == IF script = "complete" THEN CompleteDepartments
                 ELSE DemoDepartments
        naisles == IF script = "complete" THEN 134 ELSE 30
        user_id == Draws(Range(1, 401), s0, o)
        order_number == Draws(Range(1, 25), RngAt(s0, o), o)
        order_dow == Draws(Range(0, 7), RngAt(s0, 2 * o), o)
        order_hour_of_day == Draws(Range(6, 23), RngAt(s0, 3 * o), o)
        days_since_prior_order == Draws(DaysSupport, RngAt(s0, 4 * o), o)
        s1 == RngAt(s0, 5 * o)
        aisle_id == Draws(Range(1, naisles + 1), s1, p)
        department_id == Draws(Range(1, Len(depts) + 1), RngAt(s1, p), p)
        s2 == RngAt(s1, 2 * p)
        line_order == Draws(Range(1, o + 1), s2, l)
        line_product == Draws(Range(1, p + 1), RngAt(s2, l), l)
        add_to_cart_order == Draws(Range(1, 15), RngAt(s2, 2 * l), l)
        reordered == Draws(<<0, 1>>, RngAt(s2, 3 * l), l)
    IN [orders |-> [i \in 1..o |->
            OrderRow(i, user_id[i], order_number[i], Num(order_dow[i]),
                     order_hour_of_day[i], days_since_prior_order[i])],
        products |-> [i \in 1..p |->
            ProductRow(i, names[((i - 1) % Len(names)) + 1], aisle_id[i],
                       department_id[i])],
        order_products_prior |-> [i \in 1..l |->
            LineRow(line_order[i], line_product[i], add_to_cart_order[i],
                    reordered[i])],
        departments |-> [i \in DOMAIN depts |-> DepartmentRow(i, depts[i])],
        aisles |-> [i \in 1..naisles |-> AisleRow(i, AisleNames[i])],
        rng |-> RngAt(s2, 4 * l)]

\* create_sample_data of data_exploration_fixed.py, called with the
\* generator in state cur.
exploration_create_sample_data(cur) ==
    LET s0 == SeedRng(42, cur)
        o == SimOrders
        p == SimProducts
        l == SimLines
        user_id == Draws(Range(1, 21), s0, o)
        order_dow == Draws(Range(0, 7), RngAt(s0, o), o)
        order_hour_of_day == Draws(Range(6, 23), RngAt(s0, 2 * o), o)
        s1 == RngAt(s0, 3 * o)
        department_id == Draws(Range(1, 6), s1, p)
        s2 == RngAt(s1, p)
        line_order == Draws(Range(1, o + 1), s2, l)
        line_product == Draws(Range(1, p + 1), RngAt(s2, l), l)
        reordered == Draws(<<0, 1>>, RngAt(s2, 2 * l), l)
    IN [orders |-> [i \in 1..o |->
            [order_id |-> Num(i), user_id |-> Num(user_id[i]),
             order_dow |-> Num(order_dow[i]),
             order_hour_of_day |-> Num(order_hour_of_day[i])]],
        products |-> [i \in 1..p |->
            [product_id |-> Num(i),
             product_name |->
                 ExplorationProductNames[((i - 1) % 20) + 1],
             department_id |-> Num(department_id[i])]],
        order_products_prior |-> [i \in 1..l |->
            [order_id |-> Num(line_order[i]),
             product_id |-> Num(line_product[i]),
             reordered |-> Num(reordered[i])]],
        departments |-> [i \in 1..5 |->
            DepartmentRow(i, ExplorationDepartments[i])],
        aisles |-> [i \in 1..10 |-> AisleRow(i, AisleNames[i])],
        rng |-> RngAt(s2, 3 * l)]
----------------------------------------------------------------------------
(* Instacart: main of complete_4p_analysis.py and of                       *)
(* instacart_analysis_demo.py.                                             *)

\* The largest number of order lines of an order_products__prior.csv.
MaxLines == 4

\* The files of a real dataset: two products in two departments and
\* aisles, three orders on days chosen among Sunday, Wednesday and
\* Saturday or an orders table with a repeated order_id, and order lines of
\* the orders 1 to 4 (order 4 is no row of orders.csv).
RealProducts == <<ProductRow(1, "Banana", 1, 1), ProductRow(2, "Strawberries", 2, 2)>>
RealDepartments == <<DepartmentRow(1, "produce"), DepartmentRow(2, "snacks")>>
RealAisles == <<AisleRow(1, "aisle_1"), AisleRow(2, "aisle_2")>>
RealDows == {Num(0), Num(3), Num(6)}
RealOrders(dows) ==
    <<OrderRow(1, 1, 1, dows[1], 8, NaN),
      OrderRow(2, 1, 2, dows[2], 20, Num(7)),
      OrderRow(3, 2, 11, dows[3], 20, Num(30))>>
\* An orders.csv that holds order 1 twice, on a Sunday and on a Wednesday:
\* read_csv and the joins do not check that order_id is unique.
RepeatedOrders ==
    <<OrderRow(1, 1, 1, Num(0), 8, NaN),
      OrderRow(1, 1, 1, Num(3), 8, NaN),
      OrderRow(2, 1, 2, Num(3), 20, Num(7))>>
RealOrderTables ==
    {RealOrders(dows) : dows \in [1..3 -> RealDows]} \cup {RepeatedOrders}

\* The (order_id, product_id) pairs of the order lines, in file order.
LinePairs == <<<<1, 1>>, <<1, 2>>, <<2, 1>>, <<2, 2>>, <<3, 1>>, <<4, 1>>>>
RealLine(q) == LineRow(q[1], q[2], 1, q[2] % 2)
LineTablesOfLength(n) ==
    {[i \in 1..n |-> RealLine(LinePairs[f[i]])] :
        f \in {g \in [1..n -> DOMAIN LinePairs] :
                  \A i \in 1..(n - 1) : g[i] <= g[i + 1]}}
RealLineTables == UNION {LineTablesOfLength(n) : n \in 0..MaxLines}

\* The directory with the five files present.
RealFiles(orders, lines) ==
    [orders |-> File(orders), products |-> File(RealProducts),
     order_products_prior |-> File(lines),
     departments |-> File(RealDepartments), aisles |-> File(RealAisles)]

\* A directory with some of the files missing.
Without(files, missing) ==
    [n \in DOMAIN files |-> IF n \in missing THEN NoFile ELSE files[n]]

InsDirectories ==
    {RealFiles(o, l) : o \in RealOrderTables, l \in RealLineTables}
    \cup {Without(RealFiles(RealOrders([i \in 1..3 |-> Num(3)]), <<>>), m) :
             m \in SUBSET {InsFileNames[k] : k \in DOMAIN InsFileNames} \ {{}}}

\* A loader that keeps the tables it read before the missing file.
load_or_simulate_data_keeping(files, script, cur) ==
    IF \A n \in DOMAIN files : files[n].exists
        THEN [tables |-> [n \in DOMAIN files |-> files[n].rows],
              source |-> IF script = "complete" THEN "real" ELSE "True",
              rng |-> cur]
    ELSE LET sim == SimulatedTables(script, cur)
             first == CHOOSE k \in DOMAIN InsFileNames :
                         /\ ~files[InsFileNames[k]].exists
                         /\ \A j \in 1..(k - 1) : files[InsFileNames[j]].exists
             read == {InsFileNames[j] : j \in 1..(first - 1)}
         IN [tables |-> [n \in DOMAIN files |->
                            IF n \in read THEN files[n].rows ELSE sim[n]],
             source |-> IF script = "complete" THEN "simulated" ELSE "False",
             rng |-> sim.rng]

\* load_or_simulate_data: the first read_csv of a missing file raises
\* FileNotFoundError, and the except branch builds all five tables anew.
\* The tag is "real"/"simulated" in the complete script, True/False in the
\* demo script.
load_or_simulate_data(files, script, cur) ==
    IF \A n \in DOMAIN files : files[n].exists
        THEN [tables |-> [n \in DOMAIN files |-> files[n].rows],
              source |-> IF script = "complete" THEN "real" ELSE "True",
              rng |-> cur]
    ELSE LET sim == SimulatedTables(script, cur)
         IN [tables |-> [n \in DOMAIN files |-> sim[n]],
             source |-> IF script = "complete" THEN "simulated" ELSE "False",
             rng |-> sim.rng]

InsLoad ==
    /\ insPc = "start"
    /\ LET r == load_or_simulate_data(insFiles, insScript, rng)
       IN /\ insTables' = r.tables
          /\ insSource' = r.source
          /\ rng' = r.rng
    /\ insPc' = "loaded"
    /\ UNCHANGED <<exceptIns, insScript, insFiles, insMaster, insAnalysis,
                   insLift, insPrinted, insSummary, insSaved, insErr>>

InsCreateMaster ==
    /\ insPc = "loaded"
    /\ insMaster' = create_master_dataset(insTables.orders, insTables.products,
                        insTables.order_products_prior, insTables.departments,
                        insTables.aisles, insScript)
    /\ insPc' = "master"
    /\ UNCHANGED <<rng, exceptIns, insScript, insFiles, insTables, insSource,
                   insAnalysis, insLift, insPrinted, insSummary, insSaved,
                   insErr>>

InsAnalyse ==
    /\ insPc = "master"
    /\ insAnalysis' = perform_4p_analysis(insMaster, insScript)
    /\ insPc' = "analysed"
    /\ UNCHANGED <<rng, exceptIns, insScript, insFiles, insTables, insSource,
                   insMaster, insLift, insPrinted, insSummary, insSaved,
                   insErr>>

\* create_visualizations draws from the analysis tables and changes none.
InsVisualize ==
    /\ insPc = "analysed"
    /\ insPc' = "charted"
    /\ UNCHANGED <<rng, exceptIns, insScript, insFiles, insTables, insSource,
                   insMaster, insAnalysis, insLift, insPrinted, insSummary,
                   insSaved, insErr>>

InsSummarize ==
    /\ insPc = "charted"
    /\ LET r == generate_executive_summary(insMaster, insAnalysis, insSource,
                                           insScript)
       IN /\ insLift' = r.weekend_lift
          /\ insPrinted' = r.printed_lift
          /\ insSummary' = r.summary
          /\ insErr' = r.err
          /\ insPc' = IF r.err = "none" THEN "summarized" ELSE "raised"
    /\ UNCHANGED <<rng, exceptIns, insScript, insFiles, insTables, insSource,
                   insMaster, insAnalysis, insSaved>>

\* master_df.to_csv('../data/processed/master_dataset.csv').
InsSave ==
    /\ insPc = "summarized"
    /\ insSaved' = insMaster
    /\ insPc' = "done"
    /\ UNCHANGED <<rng, exceptIns, insScript, insFiles, insTables, insSource,
                   insMaster, insAnalysis, insLift, insPrinted, insSummary,
                   insErr>>
----------------------------------------------------------------------------
(* Instacart: instacart-insights-4p-analytics/scripts/data_preprocessing.py *)

\* load_instacart_data: the dictionary is filled file by file, in the order
\* of InsFileNames, inside the try block; the first missing file raises
\* FileNotFoundError, which is caught and reported, and the dictionary is
\* returned with the tables read before it.
load_instacart_data(files) ==
    LET missing == {k \in DOMAIN InsFileNames : ~files[InsFileNames[k]].exists}
        read == {k \in DOMAIN InsFileNames : \A j \in missing : k < j}
    IN [datasets |-> [n \in {InsFileNames[k] : k \in read} |-> files[n].rows],
        printed |-> IF missing = {} THEN "All datasets loaded successfully!"
                    ELSE "Error loading data"]

\* The keys create_master_dataset reads from the dictionary, in the order
\* it reads them; a key that is absent raises KeyError.
MasterKeys == <<"order_products_prior", "products", "departments", "aisles",
                "orders">>

\* create_master_dataset(datasets) of the preprocessing script.
prep_create_master_dataset(datasets) ==
    IF \E k \in DOMAIN MasterKeys : MasterKeys[k] \notin DOMAIN datasets
        THEN [err |-> "KeyError", df |-> <<>>]
    ELSE LET p == LeftMerge(datasets.order_products_prior, datasets.products,
                            "product_id", ProductNulls)
             d == LeftMerge(p, datasets.departments, "department_id",
                            DepartmentNulls)
             a == LeftMerge(d, datasets.aisles, "aisle_id", AisleNulls)
         IN [err |-> "none",
             df |-> LeftMerge(a, datasets.orders, "order_id", OrderNulls)]

\* clean_data(df) of the preprocessing script: the fillna is assigned to a
\* column of the frame passed in, dropna returns a new frame.  'df' is the
\* caller's frame after the call, 'out' the frame returned.
prep_clean_data(df) ==
    LET filled == [i \in DOMAIN df |->
                      [df[i] EXCEPT !.days_since_prior_order = FillNa(@, 0)]]
    IN [df |-> filled,
        out |-> SelectSeq(filled, LAMBDA r :
                    r.product_name # NA /\ r.department # NA /\ r.aisle # NA)]

PrepHourBins == <<0, 6, 12, 18, 24>>
PrepHourLabels == <<"Night", "Morning", "Afternoon", "Evening">>
PeriodLabels == <<"Period 1", "Period 2", "Period 3", "Period 4">>

\* The smallest and the largest value of a numeric column with a value.
ColMin(df, col) ==
    CHOOSE v \in {Val(df[i][col]) : i \in {j \in DOMAIN df : ~IsNa(df[j][col])}} :
        \A i \in DOMAIN df : ~IsNa(df[i][col]) => v <= Val(df[i][col])
ColLargest(df, col) ==
    CHOOSE v \in {Val(df[i][col]) : i \in {j \in DOMAIN df : ~IsNa(df[j][col])}} :
        \A i \in DOMAIN df : ~IsNa(df[i][col]) => v >= Val(df[i][col])

\* pd.cut(x, bins=n): n bins of equal width between the smallest value mn
\* and the largest value mx of the column, right-closed, the lowest edge
\* moved down so that mn falls in the first bin; when mn = mx the range is
\* widened by a thousandth on both sides and mn sits on the middle edge.
CutEqualWidth(x, mn, mx, labels) ==
    IF IsNa(x) THEN NA
    ELSE IF mn = mx THEN labels[Len(labels) \div 2]
    ELSE labels[CHOOSE k \in DOMAIN labels :
             /\ Len(labels) * (Val(x) - mn) <= k * (mx - mn)
             /\ \A j \in 1..(k - 1) :
                    Len(labels) * (Val(x) - mn) > j * (mx - mn)]

\* engineer_features(df) of the preprocessing script: three columns are
\* assigned to the frame passed in, the merge of basket_size returns a new
\* frame, which receives time_period.  synthetic_date is held as the number
\* of days after 2017-01-01.  pd.cut with a number of bins raises ValueError
\* on a column without a value.
prep_engineer_features(df) ==
    LET assigned == [i \in DOMAIN df |->
            [synthetic_date |->
                 IF IsNa(df[i].order_number) THEN NaN
                 ELSE Num(Val(df[i].order_number) \div 1000),
             order_dow_name |-> DayName(df[i].order_dow),
             hour_category |->
                 Cut(df[i].order_hour_of_day, PrepHourBins, PrepHourLabels,
                     TRUE)] @@ df[i]]
        merged == [i \in DOMAIN assigned |->
            [basket_size |-> BasketSize(assigned, assigned[i])] @@ assigned[i]]
        empty == Count(df, "order_number") = 0
    IN [df |-> assigned,
        err |-> IF empty THEN "ValueError" ELSE "none",
        out |-> IF empty THEN <<>>
                ELSE [i \in DOMAIN merged |->
                    [time_period |->
                         CutEqualWidth(merged[i].order_number,
                             ColMin(merged, "order_number"),
                             ColLargest(merged, "order_number"),
                             PeriodLabels)] @@ merged[i]]]
\* str.lower() on a department name; the names of the tables are lower-case
\* but for these.
UpperToLower == [Snacks |-> "snacks", Produce |-> "produce"]
StrLower(s) == IF s \in DOMAIN UpperToLower THEN UpperToLower[s] ELSE s

snack_categories == {"snacks", "cookies cakes", "candy chocolate", "chips pretzels"}

\* create_snacks_dataset(df): isin is False on a missing department.
create_snacks_dataset(df) ==
    SelectSeq(df, LAMBDA r :
        r.department # NA /\ StrLower(r.department) \in snack_categories)

\* The aggregate 'first' of a text column: its first value that is present.
FirstText(g, col) ==
    LET present == {i \in DOMAIN g : g[i][col] # NA}
    IN IF present = {} THEN NA
       ELSE g[CHOOSE i \in present : \A j \in present : i <= j][col]

\* The product_id values of the tables, in increasing order.
ProductIds == Range(1, 9)

\* calculate_reorder_stats(df): one row per product_id present, in
\* increasing order of product_id.
calculate_reorder_stats(df) ==
    LET ids == SelectSeq(ProductIds, LAMBDA p :
                   \E i \in DOMAIN df : df[i].product_id = Num(p))
        Group(p) == SelectSeq(df, LAMBDA r : r.product_id = Num(p))
    IN [j \in DOMAIN ids |->
           [product_id |-> ids[j],
            total_reorders |-> Sum(Group(ids[j]), "reordered"),
            total_orders |-> Count(Group(ids[j]), "reordered"),
            reorder_rate |-> RoundCell(Mean(Group(ids[j]), "reordered"), 3),
            product_name |-> FirstText(Group(ids[j]), "product_name"),
            department |-> FirstText(Group(ids[j]), "department")]]

\* main, lines 223-226: load_instacart_data, then 'if not datasets: return'.
PrepLoad ==
    /\ prepPc = "start"
    /\ LET r == load_instacart_data(prepFiles)
       IN /\ prepDatasets' = r.datasets
          /\ prepPrinted' = r.printed
          /\ prepPc' = IF DOMAIN r.datasets = {} THEN "returned" ELSE "loaded"
    /\ UNCHANGED <<rng, exceptPrep, prepFiles, prepMaster, prepPassed,
                   prepSnacks, prepStats, prepSaved, prepErr>>

\* master_df = create_master_dataset(datasets), line 229.
PrepCreateMaster ==
    /\ prepPc = "loaded"
    /\ LET r == prep_create_master_dataset(prepDatasets)
       IN /\ prepMaster' = r.df
          /\ prepErr' = r.err
          /\ prepPc' = IF r.err = "none" THEN "master" ELSE "raised"
    /\ UNCHANGED <<rng, exceptPrep, prepFiles, prepDatasets, prepPrinted,
                   prepPassed, prepSnacks, prepStats, prepSaved>>

\* master_df = clean_data(master_df), line 232.
PrepClean ==
    /\ prepPc = "master"
    /\ LET r == prep_clean_data(prepMaster)
       IN /\ prepPassed' = r.df
          /\ prepMaster' = r.out
    /\ prepPc' = "cleaned"
    /\ UNCHANGED <<rng, exceptPrep, prepFiles, prepDatasets, prepPrinted,
                   prepSnacks, prepStats, prepSaved, prepErr>>

\* master_df = engineer_features(master_df), line 235.
PrepEngineer ==
    /\ prepPc = "cleaned"
    /\ LET r == prep_engineer_features(prepMaster)
       IN /\ prepPassed' = r.df
          /\ prepMaster' = IF r.err = "none" THEN r.out ELSE prepMaster
          /\ prepErr' = r.err
          /\ prepPc' = IF r.err = "none" THEN "engineered" ELSE "raised"
    /\ UNCHANGED <<rng, exceptPrep, prepFiles, prepDatasets, prepPrinted,
                   prepSnacks, prepStats, prepSaved>>

\* snacks_df = create_snacks_dataset(master_df), line 238.
PrepSnacks ==
    /\ prepPc = "engineered"
    /\ prepSnacks' = create_snacks_dataset(prepMaster)
    /\ prepPc' = "snacks"
    /\ UNCHANGED <<rng, exceptPrep, prepFiles, prepDatasets, prepPrinted,
                   prepMaster, prepPassed, prepStats, prepSaved, prepErr>>

\* reorder_stats = calculate_reorder_stats(master_df), line 241.
PrepStats ==
    /\ prepPc = "snacks"
    /\ prepStats' = calculate_reorder_stats(prepMaster)
    /\ prepPc' = "stats"
    /\ UNCHANGED <<rng, exceptPrep, prepFiles, prepDatasets, prepPrinted,
                   prepMaster, prepPassed, prepSnacks, prepSaved, prepErr>>

\* save_processed_data(master_df, snacks_df, reorder_stats), line 244: the
\* three CSV files written.
PrepSave ==
    /\ prepPc = "stats"
    /\ prepSaved' = [master_dataset |-> prepMaster,
                     snacks_dataset |-> prepSnacks,
                     reorder_stats |-> prepStats]
    /\ prepPc' = "done"
    /\ UNCHANGED <<rng, exceptPrep, prepFiles, prepDatasets, prepPrinted,
                   prepMaster, prepPassed, prepSnacks, prepStats, prepErr>>
----------------------------------------------------------------------------
(* The synthetic-data generators, invoked twice in one process with other  *)
(* random draws before and between the invocations.                        *)

NoCall == [gen |-> "none"]

\* The tables of a generator's result, without the generator state.
TablesOf(r) == [n \in DOMAIN r \ {"rng"} |-> r[n]]

\* The record of an invocation: the generator, its arguments, the state of
\* np.random it was entered with, and what it returned.
GenRecord(call) ==
    /\ genFirst' = IF genFirst = NoCall THEN call ELSE genFirst
    /\ genSecond' = IF genFirst = NoCall THEN genSecond ELSE call

\* Any other use of np.random in the process: one draw.
GenOtherDraw ==
    /\ genSecond = NoCall
    /\ genPc = "running"
    /\ rng' = NextRng(rng)
    /\ UNCHANGED <<exceptGen, genPc, genFirst, genSecond>>

\* create_sample_data(n_samples, random_state) of the Airbnb script.
GenAirbnb ==
    /\ genSecond = NoCall
    /\ genPc = "running"
    /\ \E n \in 0..MaxSamples, seed \in Seeds :
          LET r == create_sample_data(n, seed, rng)
          IN /\ GenRecord([gen |-> "airbnb", n |-> n, seed |-> seed,
                           from |-> rng, out |-> r.df])
             /\ rng' = r.rng
    /\ UNCHANGED <<exceptGen, genPc>>

\* The simulated branch of load_or_simulate_data of an analysis script.
GenSimulated ==
    /\ genSecond = NoCall
    /\ genPc = "running"
    /\ \E script \in {"complete", "demo"} :
          LET r == SimulatedTables(script, rng)
          IN /\ GenRecord([gen |-> script, n |-> SimOrders, seed |-> 42,
                           from |-> rng, out |-> TablesOf(r)])
             /\ rng' = r.rng
    /\ UNCHANGED <<exceptGen, genPc>>

\* create_sample_data() of data_exploration_fixed.py.
GenExploration ==
    /\ genSecond = NoCall
    /\ genPc = "running"
    /\ LET r == exploration_create_sample_data(rng)
       IN /\ GenRecord([gen |-> "exploration", n |-> SimOrders, seed |-> 42,
                        from |-> rng, out |-> TablesOf(r)])
          /\ rng' = r.rng
    /\ UNCHANGED <<exceptGen, genPc>>
----------------------------------------------------------------------------
(* Specifications: one per script.  A script that is not run stays off.    *)

AirOff ==
    /\ airPc = "off"
    /\ airFile = NoFile
    /\ airDf = <<>>
    /\ airMin = 0
    /\ airMax = 0
    /\ airClean = <<>>
    /\ airFeat = <<>>
    /\ airErr = "none"

TelOff ==
    /\ telPc = "off"
    /\ telFile = TelNoFile
    /\ telRaw = <<>>
    /\ telClean = <<>>
    /\ telFeat = <<>>
    /\ telQ75 = NaN
    /\ telErr = "none"

NoTables == [n \in {InsFileNames[k] : k \in DOMAIN InsFileNames} |-> <<>>]
NoDirectory == [n \in {InsFileNames[k] : k \in DOMAIN InsFileNames} |-> NoFile]

InsOff ==
    /\ insScript = "none"
    /\ insPc = "off"
    /\ insFiles = NoDirectory
    /\ insTables = NoTables
    /\ insSource = "none"
    /\ insMaster = <<>>
    /\ insAnalysis = <<>>
    /\ insLift = NaN
    /\ insPrinted = NaN
    /\ insSummary = <<>>
    /\ insSaved = <<>>
    /\ insErr = "none"

GenOff ==
    /\ genPc = "off"
    /\ genFirst = NoCall
    /\ genSecond = NoCall

NoFilesWritten == [master_dataset |-> <<>>, snacks_dataset |-> <<>>,
                   reorder_stats |-> <<>>]

PrepOff ==
    /\ prepPc = "off"
    /\ prepFiles = NoDirectory
    /\ prepDatasets = <<>>
    /\ prepPrinted = ""
    /\ prepMaster = <<>>
    /\ prepPassed = <<>>
    /\ prepSnacks = <<>>
    /\ prepStats = <<>>
    /\ prepSaved = NoFilesWritten
    /\ prepErr = "none"

InitAir ==
    /\ airPc = "start"
    /\ airFile \in AirFiles \cup {NoFile}
    /\ rng \in (IF airFile = NoFile THEN RngStates ELSE {0})
    /\ \E b \in AirBoundPairs : airMin = b[1] /\ airMax = b[2]
    /\ airDf = <<>>
    /\ airClean = <<>>
    /\ airFeat = <<>>
    /\ airErr = "none"
    /\ TelOff
    /\ InsOff
    /\ GenOff
    /\ PrepOff

NextAir == AirLoad \/ AirClean \/ AirEngineer \/ VizSample \/ VizEngineer

SpecAirbnb == InitAir /\ [][NextAir]_vars

InitTelco ==
    /\ rng = 0
    /\ AirOff
    /\ InsOff
    /\ GenOff
    /\ PrepOff
    /\ telPc = "start"
    /\ telFile \in TelFiles \cup {TelNoFile}
    /\ telRaw = <<>>
    /\ telClean = <<>>
    /\ telFeat = <<>>
    /\ telQ75 = NaN
    /\ telErr = "none"

NextTelco == TelLoad \/ TelClean \/ TelEngineer

SpecTelco == InitTelco /\ [][NextTelco]_vars

InitInstacart ==
    /\ AirOff
    /\ TelOff
    /\ GenOff
    /\ PrepOff
    /\ insScript \in {"complete", "demo"}
    /\ insPc = "start"
    /\ insFiles \in InsDirectories
    /\ rng \in (IF \A n \in DOMAIN insFiles : insFiles[n].exists
                   THEN {0} ELSE RngStates)
    /\ insTables = NoTables
    /\ insSource = "none"
    /\ insMaster = <<>>
    /\ insAnalysis = <<>>
    /\ insLift = NaN
    /\ insPrinted = NaN
    /\ insSummary = <<>>
    /\ insSaved = <<>>
    /\ insErr = "none"

NextInstacart ==
    \/ InsLoad
    \/ InsCreateMaster
    \/ InsAnalyse
    \/ InsVisualize
    \/ InsSummarize
    \/ InsSave

SpecInstacart == InitInstacart /\ [][NextInstacart]_vars

InitGenerators ==
    /\ rng \in RngStates
    /\ AirOff
    /\ TelOff
    /\ InsOff
    /\ PrepOff
    /\ genPc = "running"
    /\ genFirst = NoCall
    /\ genSecond = NoCall

NextGenerators == GenOtherDraw \/ GenAirbnb \/ GenSimulated \/ GenExploration

SpecGenerators == InitGenerators /\ [][NextGenerators]_vars

InitPreprocessing ==
    /\ rng = 0
    /\ AirOff
    /\ TelOff
    /\ InsOff
    /\ GenOff
    /\ prepPc = "start"
    /\ prepFiles \in InsDirectories
    /\ prepDatasets = <<>>
    /\ prepPrinted = ""
    /\ prepMaster = <<>>
    /\ prepPassed = <<>>
    /\ prepSnacks = <<>>
    /\ prepStats = <<>>
    /\ prepSaved = NoFilesWritten
    /\ prepErr = "none"

NextPreprocessing ==
    \/ PrepLoad
    \/ PrepCreateMaster
    \/ PrepClean
    \/ PrepEngineer
    \/ PrepSnacks
    \/ PrepStats
    \/ PrepSave

SpecPreprocessing == InitPreprocessing /\ [][NextPreprocessing]_vars

\* A process that calls each of the four loaders once, in any order: every
\* path is either missing or that of a small file.
LoaderAirFiles ==
    {NoFile,
     File(WithIndex(<<AirRow("Manhattan", "Private room", Num(150), Num(5),
                             Num(1), Num(1), Num(100))>>))}
LoaderTelFiles ==
    {TelNoFile,
     CHOOSE f \in TelFiles :
         Len(f.rows) = 1 /\ f.rows[1].tenure = 24 /\ f.dtype = "object"}
LoaderDirectory ==
    RealFiles(RealOrders([i \in 1..3 |-> Num(3)]), <<RealLine(LinePairs[1])>>)
LoaderDirectories ==
    {LoaderDirectory}
    \cup {Without(LoaderDirectory, {InsFileNames[k]}) : k \in DOMAIN InsFileNames}
    \cup {NoDirectory}
LoaderRngStates == {0, 21}

InitLoaders ==
    /\ rng \in LoaderRngStates
    /\ airPc = "start"
    /\ airFile \in LoaderAirFiles
    /\ airMin = AirDefaultBounds[1]
    /\ airMax = AirDefaultBounds[2]
    /\ airDf = <<>>
    /\ airClean = <<>>
    /\ airFeat = <<>>
    /\ airErr = "none"
    /\ telPc = "start"
    /\ telFile \in LoaderTelFiles
    /\ telRaw = <<>>
    /\ telClean = <<>>
    /\ telFeat = <<>>
    /\ telQ75 = NaN
    /\ telErr = "none"
    /\ insScript \in {"complete", "demo"}
    /\ insPc = "start"
    /\ insFiles \in {LoaderDirectory, Without(LoaderDirectory, {"products"}),
                     NoDirectory}
    /\ insTables = NoTables
    /\ insSource = "none"
    /\ insMaster = <<>>
    /\ insAnalysis = <<>>
    /\ insLift = NaN
    /\ insPrinted = NaN
    /\ insSummary = <<>>
    /\ insSaved = <<>>
    /\ insErr = "none"
    /\ GenOff
    /\ prepPc = "start"
    /\ prepFiles \in LoaderDirectories
    /\ prepDatasets = <<>>
    /\ prepPrinted = ""
    /\ prepMaster = <<>>
    /\ prepPassed = <<>>
    /\ prepSnacks = <<>>
    /\ prepStats = <<>>
    /\ prepSaved = NoFilesWritten
    /\ prepErr = "none"

NextLoaders ==
    \/ AirLoad
    \/ AirClean
    \/ AirEngineer
    \/ TelLoad
    \/ TelClean
    \/ TelEngineer
    \/ InsLoad
    \/ PrepLoad

SpecLoaders == InitLoaders /\ [][NextLoaders]_vars

----------------------------------------------------------------------------
(* Properties of the Airbnb cleaner and pipeline.                          *)

AirCleaned == airPc \in {"cleaned", "returned", "raised"}

\* An output row is an input row: the input holds a row of the same index
\* with the same cells, but for the missing counts the cleaner fills.
IsInputRow(out, df) ==
    \E j \in DOMAIN df :
       LET in == df[j]
       IN /\ in.idx = out.idx
          /\ in.neighbourhood_group = out.neighbourhood_group
          /\ in.room_type = out.room_type
          /\ in.price = out.price
          /\ in.availability_365 = out.availability_365
          /\ out.number_of_reviews = FillNa(in.number_of_reviews, 0)
          /\ out.reviews_per_month = FillNa(in.reviews_per_month, 0)
          /\ out.calculated_host_listings_count
                = FillNa(in.calculated_host_listings_count, 1)

\* C1: every row clean_airbnb_data returns has its neighbourhood_group,
\* room_type and price present and price_min <= price <= price_max; the rows
\* returned are input rows, in the input's order, so there are no more of
\* them than the input had.
C1_CleanedRowsValid ==
    AirCleaned =>
        /\ \A i \in DOMAIN airClean :
              /\ airClean[i].neighbourhood_group # NA
              /\ airClean[i].room_type # NA
              /\ ~IsNa(airClean[i].price)
              /\ airMin <= Val(airClean[i].price)
              /\ Val(airClean[i].price) <= airMax
              /\ IsInputRow(airClean[i], airDf)
        /\ \A i, j \in DOMAIN airClean : i < j => airClean[i].idx < airClean[j].idx
        /\ Len(airClean) <= Len(airDf)

\* C1's case: the cleaner has dropped a row and kept another.
C1_Witness ==
    /\ airPc = "cleaned"
    /\ Len(airClean) >= 1
    /\ Len(airClean) < Len(airDf)

\* C2: the pipeline on the seeded sample completes; the cleaned frame has at
\* most n_samples rows with prices in [10, 1000], and every row of the
\* final frame has a price_category among the four labels.
C2_SamplePipelineCompletes ==
    (~airFile.exists /\ <<airMin, airMax>> = AirDefaultBounds
        /\ airPc \in {"returned", "raised"}) =>
        /\ airErr = "none"
        /\ Len(airClean) <= MaxSamples
        /\ \A i \in DOMAIN airClean :
              Val(airClean[i].price) >= 10 /\ Val(airClean[i].price) <= 1000
        /\ Len(airFeat) = Len(airClean)
        /\ \A i \in DOMAIN airFeat : airFeat[i].price_category \in Rows(PriceLabels)

----------------------------------------------------------------------------
(* Properties of the Telco feature engineer.                               *)

TelEngineered == telPc = "engineered"

\* The documented rule contributions of one row, given whether its
\* MonthlyCharges is above the 75th percentile.
DocumentedRisk(r, above) ==
    (IF r.Contract = "Month-to-month" THEN 3 ELSE 0)
    + (IF r.Contract = "One year" THEN 1 ELSE 0)
    + (IF r.tenure <= 12 THEN 2 ELSE 0)
    + (IF above THEN 1 ELSE 0)
    + (IF r.InternetService = "Fiber optic" THEN 1 ELSE 0)
    + (IF r.PaymentMethod = "Electronic check" THEN 1 ELSE 0)

\* The label of a score under the edges (-1, 2, 4, 8].
DocumentedRiskCategory(score) ==
    IF score \in 0..2 THEN "Low Risk"
    ELSE IF score \in 3..4 THEN "Medium Risk"
    ELSE IF score \in 5..8 THEN "High Risk"
    ELSE NA

\* Whether a charge is strictly above the 75th percentile of the cleaned
\* frame's MonthlyCharges: 4 * charge against four times the percentile,
\* interpolated between the sorted charges at positions lo and lo + 1.
AboveP75(charge, df) ==
    LET n == Len(df)
        Rank(i) == Cardinality({j \in DOMAIN df :
                       df[j].MonthlyCharges < df[i].MonthlyCharges
                       \/ (df[j].MonthlyCharges = df[i].MonthlyCharges /\ j < i)})
        At(k) == df[CHOOSE i \in DOMAIN df : Rank(i) = k].MonthlyCharges
        lo == (3 * (n - 1)) \div 4
        r == (3 * (n - 1)) % 4
    IN 4 * charge > (4 - r) * At(lo) + r * At(IF r = 0 THEN lo ELSE lo + 1)

\* C3: Risk_Score of every row is the sum of the six documented
\* contributions, and Risk_Category is the label of the score's bin under
\* the edges (-1, 2, 4, 8].
C3_RiskScoreIsDocumentedSum ==
    TelEngineered =>
        \A i \in DOMAIN telFeat :
           LET f == telFeat[i]
           IN /\ f.Risk_Score
                    = DocumentedRisk(f.base, AboveP75(f.base.MonthlyCharges, telClean))
              /\ f.Risk_Category = DocumentedRiskCategory(f.Risk_Score)

\* C3's case: a one-year customer who meets every other rule scores 6.
C3_Witness ==
    /\ TelEngineered
    /\ \E i \in DOMAIN telFeat :
          telFeat[i].base.Contract = "One year" /\ telFeat[i].Risk_Score = 6

\* The row of the Telco scenario: month-to-month, tenure 6, charges above
\* the 75th percentile, fiber optic, electronic check.
IsScenarioRow(r, df) ==
    /\ r.Contract = "Month-to-month"
    /\ r.tenure = 6
    /\ AboveP75(r.MonthlyCharges, df)
    /\ r.InternetService = "Fiber optic"
    /\ r.PaymentMethod = "Electronic check"

\* C4: the scenario row gets Risk_Score 8 and Risk_Category 'High Risk'.
C4_ScenarioRowScoresEight ==
    TelEngineered =>
        \A i \in DOMAIN telFeat :
           IsScenarioRow(telFeat[i].base, telClean) =>
              telFeat[i].Risk_Score = 8 /\ telFeat[i].Risk_Category = "High Risk"

\* C4's case: the frame holds the scenario row.
C4_Witness ==
    /\ TelEngineered
    /\ \E i \in DOMAIN telFeat : IsScenarioRow(telFeat[i].base, telClean)

\* The label of the bin (lo, hi] that holds a tenure, under the edges
\* 0, 12, 24, 48, inf; NA when no bin holds it.
DocumentedTenureGroup(t) ==
    IF 0 < t /\ t <= 12 THEN "New (0-12m)"
    ELSE IF 12 < t /\ t <= 24 THEN "Growing (13-24m)"
    ELSE IF 24 < t /\ t <= 48 THEN "Mature (25-48m)"
    ELSE IF 48 < t THEN "Loyal (48m+)"
    ELSE NA

\* C5: Tenure_Group of every row is the label of the bin holding its tenure
\* under the edges 0, 12, 24, 48, inf; tenure 24 is 'Growing (13-24m)', and
\* the edges 12, 24 and 48 all belong to the bin they close.
C5_TenureGroupMatchesBin ==
    TelEngineered =>
        \A i \in DOMAIN telFeat :
           LET f == telFeat[i]
           IN /\ f.Tenure_Group = DocumentedTenureGroup(f.base.tenure)
              /\ f.base.tenure = 12 => f.Tenure_Group = "New (0-12m)"
              /\ f.base.tenure = 24 => f.Tenure_Group = "Growing (13-24m)"
              /\ f.base.tenure = 48 => f.Tenure_Group = "Mature (25-48m)"

\* C5's case: a frame with a row of tenure 24 and a row of tenure 48.
C5_Witness ==
    /\ TelEngineered
    /\ \E i, j \in DOMAIN telFeat :
          telFeat[i].base.tenure = 24 /\ telFeat[j].base.tenure = 48

\* TotalCharges + 1 = 0, for the fraction TotalCharges = <<n, d>>.
IsMinusOne(total) == total[1] + total[2] = 0

\* C7 as claimed: Monthly_to_Total_Ratio is MonthlyCharges / (TotalCharges +
\* 1) and its denominator is never zero, whatever TotalCharges the cleaner
\* returned.
C7_DenominatorNeverZero ==
    TelEngineered =>
        \A i \in DOMAIN telFeat :
           LET f == telFeat[i]
               total == f.base.TotalCharges.num
           IN ~IsNa(total) =>
                 /\ ~IsNa(f.Monthly_to_Total_Ratio)
                 /\ Val(f.Monthly_to_Total_Ratio).den # 0

\* C7 as amended: Monthly_to_Total_Ratio is MonthlyCharges / (TotalCharges +
\* 1), missing when TotalCharges is; the denominator is zero exactly when
\* TotalCharges is -1, so it is positive for every TotalCharges >= 0.
C7_DenominatorZeroOnlyAtMinusOne ==
    TelEngineered =>
        \A i \in DOMAIN telFeat :
           LET f == telFeat[i]
               total == f.base.TotalCharges.num
               ratio == f.Monthly_to_Total_Ratio
           IN /\ IsNa(total) <=> IsNa(ratio)
              /\ ~IsNa(total) =>
                    /\ Val(ratio).num = f.base.MonthlyCharges * Val(total)[2]
                    /\ Val(ratio).den = Val(total)[1] + Val(total)[2]
                    /\ Val(ratio).den = 0 <=> IsMinusOne(Val(total))
                    /\ Val(total)[1] >= 0 => Val(ratio).den > 0

\* C7's case: a frame with a row whose TotalCharges is 0 (the guard makes
\* the denominator 1) and a row whose TotalCharges is -1.
C7_Witness ==
    /\ TelEngineered
    /\ \E i, j \in DOMAIN telFeat :
          /\ telFeat[i].base.TotalCharges.num = Num(<<0, 1>>)
          /\ Val(telFeat[i].Monthly_to_Total_Ratio).den = 1
          /\ telFeat[j].base.TotalCharges.num = Num(<<-1, 1>>)

----------------------------------------------------------------------------
(* Properties of the Instacart executive summary.                          *)

InsSummarized == insPc \in {"summarized", "done"}

\* The distinct orders with a line on a weekend day (order_dow 0 or 6), and
\* the distinct orders with a line on any other day or on no known day.
WeekendIds ==
    {insMaster[i].order_id : i \in {j \in DOMAIN insMaster :
        insMaster[j].order_dow \in {Num(0), Num(6)}}}
WeekdayIds ==
    {insMaster[i].order_id : i \in {j \in DOMAIN insMaster :
        insMaster[j].order_dow \notin {Num(0), Num(6)}}}

\* x = (W - D) / D * 100 for the fraction x, or x = 0 when D = 0.
IsDocumentedLift(x) ==
    LET W == Cardinality(WeekendIds)
        D == Cardinality(WeekdayIds)
    IN IF D > 0 THEN x[1] * D = (W - D) * 100 * x[2] ELSE x[1] = 0

\* y is x rounded to one decimal: a multiple of 1/10 at most 1/20 from x.
IsRoundedToTenth(y, x) ==
    /\ (10 * y[1]) % y[2] = 0
    /\ 20 * Abs(y[1] * x[2] - x[1] * y[2]) <= y[2] * x[2]

\* C6, as stated: in both analysis scripts the weekend_lift written to the
\* summary record is exactly (W - D) / D * 100 when D > 0, and 0 when D = 0.
C6_WrittenLiftIsExact ==
    InsSummarized => IsDocumentedLift(insSummary[1].weekend_lift)

\* C6, amended: the weekend_lift computed is exactly (W - D) / D * 100 when
\* D > 0 and 0 when D = 0; the demo script writes that value to the summary
\* record, the complete script writes it rounded to one decimal, and both
\* print it rounded to one decimal.
C6_LiftExactWrittenPerScript ==
    InsSummarized =>
        /\ ~IsNa(insLift) /\ IsDocumentedLift(Val(insLift))
        /\ ~IsNa(insPrinted) /\ IsRoundedToTenth(Val(insPrinted), Val(insLift))
        /\ insScript = "demo" => insSummary[1].weekend_lift = Val(insLift)
        /\ insScript = "complete" =>
               IsRoundedToTenth(insSummary[1].weekend_lift, Val(insLift))

\* A summary of the complete script whose written lift is not the computed
\* one, with weekday orders to divide by.
C6_Witness ==
    /\ insPc = "summarized"
    /\ insScript = "complete"
    /\ Cardinality(WeekdayIds) > 0
    /\ insSummary[1].weekend_lift # Val(insLift)

----------------------------------------------------------------------------
(* Properties of the generators.                                           *)

SameInvocation ==
    /\ genFirst # NoCall
    /\ genSecond # NoCall
    /\ genFirst.gen = genSecond.gen
    /\ genFirst.n = genSecond.n
    /\ genFirst.seed = genSecond.seed

\* C8: two invocations of a generator with the same seed and size return
\* identical datasets, whatever was drawn from np.random before each.
C8_GeneratorsDeterministic ==
    SameInvocation => genFirst.out = genSecond.out

\* The same generator invoked twice with the same arguments and a non-empty
\* result, entered with np.random in two different states.
C8_Witness ==
    /\ SameInvocation
    /\ genFirst.n > 0
    /\ genFirst.from # genSecond.from
    /\ SeedRng(genFirst.seed, genFirst.from) # genFirst.from

----------------------------------------------------------------------------
(* Properties of the loaders.                                              *)

Missing(files) == {n \in DOMAIN files : ~files[n].exists}
AllFileNames == {InsFileNames[k] : k \in DOMAIN InsFileNames}

\* df is a frame the Airbnb generator returns with the default arguments.
IsAirSample(df) ==
    \E s \in RngStates : df = create_sample_data(MaxSamples, 42, s).df

\* tables are five tables the simulated branch of the script returns.
IsSimulated(tables, script) ==
    \E s \in RngStates : tables = TablesOf(SimulatedTables(script, s))

\* C10, as stated: whichever file is missing, load_instacart_data prints a
\* message and returns an empty result, and main returns without calling
\* create_master_dataset and without raising.
C10_MissingFileStopsMain ==
    (Missing(prepFiles) # {} /\ prepPc \notin {"off", "start"}) =>
        /\ prepPrinted = "Error loading data"
        /\ DOMAIN prepDatasets = {}
        /\ prepPc = "returned"
        /\ prepErr = "none"

\* C9, as stated: with a missing path no loader raises, and each returns a
\* procedurally generated dataset in the place of the real one (the Airbnb
\* sample, the simulated tables, a non-empty Telco frame, all five Instacart
\* tables).
C9_MissingPathFailsSoft ==
    /\ (airFile = NoFile /\ airPc \in {"returned", "raised"}) =>
           airPc = "returned" /\ IsAirSample(airDf)
    /\ (telFile = TelNoFile /\ telPc # "start") =>
           telErr = "none" /\ telRaw # <<>>
    /\ (Missing(insFiles) # {} /\ insPc # "start") =>
           insErr = "none" /\ IsSimulated(insTables, insScript)
    /\ (Missing(prepFiles) # {} /\ prepPc # "start") =>
           /\ prepErr = "none"
           /\ DOMAIN prepDatasets = AllFileNames
           /\ \A n \in AllFileNames : prepDatasets[n] # <<>>

\* C11: clean_data never raises on a text TotalCharges column; every
\* unparseable value (a blank, whitespace of any length, other non-numeric
\* text) is treated as missing and replaced by the column median, so the
\* call returns a frame with a number in every TotalCharges cell.
C11_TextColumnNeverRaises ==
    (telPc \in {"cleaned", "raised", "engineered"} /\ telFile.exists
        /\ telFile.dtype = "object") =>
        /\ telErr = "none"
        /\ \A j \in DOMAIN telClean : ~IsNa(telClean[j].TotalCharges.num)

\* C12: Tenure_Group is a total function of tenure: every row with a tenure
\* of 0 or more, tenure 0 included, receives a label.
C12_TenureGroupTotal ==
    TelEngineered =>
        \A i \in DOMAIN telFeat :
           telFeat[i].base.tenure >= 0 => telFeat[i].Tenure_Group # NA

\* The preprocessing script has run engineer_features to its return.
PrepEngineered == prepPc = "engineered"

\* The rows of a frame at the positions in keep, in the frame's order, and
\* the position a kept row has among them.
SubFrame(df, keep) ==
    LET f[k \in 0..Len(df)] ==
            IF k = 0 THEN <<>>
            ELSE IF k \in keep THEN Append(f[k - 1], df[k]) ELSE f[k - 1]
    IN f[Len(df)]
PositionIn(keep, i) == Cardinality({k \in keep : k <= i})

\* The labels engineer_features gives row i when the frame passed holds
\* only the rows at the positions in keep; no label where the call raises.
LabelAmong(df, keep, i, col) ==
    LET r == prep_engineer_features(SubFrame(df, keep))
    IN IF col = "hour_category" THEN r.df[PositionIn(keep, i)][col]
       ELSE IF r.err = "none" THEN r.out[PositionIn(keep, i)][col]
       ELSE NA

\* C13 as claimed, for the two bucketed columns of the preprocessing script:
\* the label of a row depends on the row's own value only, so the row keeps
\* its hour_category and its time_period when other rows are taken out of
\* the dataset.
C13_LabelsIgnoreOtherRows ==
    PrepEngineered =>
        \A i \in DOMAIN prepMaster :
           \A keep \in SUBSET DOMAIN prepMaster :
              (i \in keep /\ ~IsNa(prepMaster[i].order_number)) =>
                 /\ LabelAmong(prepPassed, keep, i, "hour_category")
                        = prepMaster[i].hour_category
                 /\ LabelAmong(prepPassed, keep, i, "time_period")
                        = prepMaster[i].time_period

\* perform_4p_analysis has returned its tables.
InsAnalysed == insPc \in {"analysed", "charted", "summarized", "done"}

\* A table is in non-increasing order of a column of counts.
NonIncreasing(table, col) ==
    \A j \in 1..(Len(table) - 1) : table[j][col] >= table[j + 1][col]

\* The distinct order_id values among the master rows of a department.
OrdersOfDepartment(name) ==
    {insMaster[i].order_id : i \in {k \in DOMAIN insMaster :
        insMaster[k].department = name}}

\* C14: dept_performance and top_products are in non-increasing order of
\* unique_orders; unique_orders of a department is the number of distinct
\* order_id values among its rows; the top department of the summary, the
\* first row, has the largest number of distinct orders.
C14_TablesSortedByUniqueOrders ==
    InsAnalysed =>
        LET dept == insAnalysis.dept_performance
        IN /\ NonIncreasing(dept, "unique_orders")
           /\ NonIncreasing(insAnalysis.top_products, "unique_orders")
           /\ \A j \in DOMAIN dept :
                 dept[j].unique_orders
                     = Cardinality(OrdersOfDepartment(dept[j].department))
           /\ InsSummarized =>
                 \A i \in DOMAIN insMaster :
                    insMaster[i].department # NA =>
                       Cardinality(OrdersOfDepartment(insMaster[i].department))
                           <= Cardinality(OrdersOfDepartment(
                                  insSummary[1].top_department))

\* C14's case: a summary whose top department comes later in the alphabet
\* than a department with fewer orders, which the grouping had put first.
C14_Witness ==
    /\ InsSummarized
    /\ Len(insAnalysis.dept_performance) >= 2
    /\ insAnalysis.dept_performance[1].department = "snacks"
    /\ insAnalysis.dept_performance[2].department = "produce"
    /\ insAnalysis.dept_performance[1].unique_orders
           > insAnalysis.dept_performance[2].unique_orders
    /\ insSummary[1].top_department = "snacks"

\* The distinct order_id values among the master rows of a day of the week,
\* and among those of an hour of the day.
OrdersOfDay(name) ==
    {insMaster[i].order_id : i \in {k \in DOMAIN insMaster :
        insMaster[k].order_dow_name = name}}
OrdersOfHour(hour) ==
    {insMaster[i].order_id : i \in {k \in DOMAIN insMaster :
        insMaster[k].order_hour_of_day = Num(hour)}}

\* C15: in the complete analysis, no day of the week has more distinct
\* orders than the best_day of the summary, and no hour of the day has more
\* distinct orders than its peak_hour.
C15_BestDayAndPeakHourAreArgMax ==
    (InsSummarized /\ insScript = "complete") =>
        \A i \in DOMAIN insMaster :
           /\ insMaster[i].order_dow_name # NA =>
                 Cardinality(OrdersOfDay(insMaster[i].order_dow_name))
                     <= Cardinality(OrdersOfDay(insSummary[1].best_day))
           /\ ~IsNa(insMaster[i].order_hour_of_day) =>
                 Cardinality(OrdersOfHour(Val(insMaster[i].order_hour_of_day)))
                     <= Cardinality(OrdersOfHour(insSummary[1].peak_hour))

\* C15's case: a summary of the complete analysis whose best day and peak
\* hour each have more orders than an earlier day and an earlier hour.
C15_Witness ==
    /\ InsSummarized /\ insScript = "complete"
    /\ \E i, j \in DOMAIN insMaster :
          /\ insMaster[i].order_dow_name # NA
          /\ Cardinality(OrdersOfDay(insMaster[i].order_dow_name))
                 < Cardinality(OrdersOfDay(insSummary[1].best_day))
          /\ ~IsNa(insMaster[j].order_hour_of_day)
          /\ Val(insMaster[j].order_hour_of_day) < insSummary[1].peak_hour
          /\ Cardinality(OrdersOfHour(Val(insMaster[j].order_hour_of_day)))
                 < Cardinality(OrdersOfHour(insSummary[1].peak_hour))

\* C16: clean_airbnb_data, the Airbnb engineer_features, the Telco
\* clean_data and the Telco engineer_features leave the dataset passed in
\* unchanged, whether they return or raise, and what they return is another
\* dataset: the cleaned and the engineered frame are held next to it.
C16_PassedFrameUnchanged ==
    [][/\ (airPc = "loaded" /\ airPc' # "loaded") =>
              airDf' = airDf /\ airClean' = clean_airbnb_data(airDf, airMin, airMax)
       /\ (airPc = "cleaned" /\ airPc' # "cleaned") => airClean' = airClean
       /\ (telPc = "loaded" /\ telPc' # "loaded") => telRaw' = telRaw
       /\ (telPc = "cleaned" /\ telPc' # "cleaned") =>
              telClean' = telClean /\ telFeat' = tel_engineer_features(telClean)]_vars

\* C16's case: the four functions have run, the Telco cleaner has returned
\* a frame that differs from the one passed in, and the Telco feature
\* engineer a frame with columns the cleaned one does not have.
C16_Witness ==
    /\ airPc \in {"returned", "raised"} /\ airDf # <<>>
    /\ telPc = "engineered"
    /\ telClean # telRaw
    /\ telFeat # telClean

\* C17: the preprocessing functions clean_data and engineer_features hand
\* their result over by return value only: after either call the dataset
\* passed in has the columns and the values it had before the call.
C17_PassedFrameUnchangedByPreprocessing ==
    [][/\ (prepPc = "master" /\ prepPc' # "master") => prepPassed' = prepMaster
       /\ (prepPc = "cleaned" /\ prepPc' # "cleaned") => prepPassed' = prepMaster]_vars

\* clean_data has returned a frame.
TelCleaned == telPc \in {"cleaned", "engineered"}

\* The input of clean_data with TotalCharges coerced and filled, the frame
\* drop_duplicates is called on.
CoercedAndFilled ==
    IF telFile.dtype = "object" THEN CoerceTotalCharges(telRaw).df ELSE telRaw

\* C18: the output of clean_data holds no two rows equal in every column, and
\* of each distinct row of the coerced and filled input exactly one copy,
\* the first occurrence, in the order of the input.
C18_OneCopyOfEachRow ==
    TelCleaned =>
        /\ \A i, j \in DOMAIN telClean :
              i # j => ~SameCells(telClean[i], telClean[j])
        /\ \A k \in DOMAIN CoercedAndFilled :
              Cardinality({j \in DOMAIN telClean :
                  SameCells(telClean[j], CoercedAndFilled[k])}) = 1
        /\ \A j \in DOMAIN telClean :
              \E k \in DOMAIN CoercedAndFilled :
                 /\ CoercedAndFilled[k] = telClean[j]
                 /\ \A h \in 1..(k - 1) :
                       ~SameCells(CoercedAndFilled[h], CoercedAndFilled[k])
        /\ \A i, j \in DOMAIN telClean :
              i < j => telClean[i].idx < telClean[j].idx

\* C18's case: the third row of a text column became equal to the first
\* when its blank was filled, and was dropped; the second was kept.
C18_Witness ==
    /\ TelCleaned
    /\ telFile.dtype = "object"
    /\ Len(telRaw) = 3 /\ Len(telClean) = 2
    /\ ~SameCells(telRaw[1], telRaw[3])
    /\ telClean[1].idx = telRaw[1].idx
    /\ telClean[2].idx = telRaw[2].idx

\* C20: after clean_data TotalCharges has no missing value in any row,
\* whether the column came as text with blanks or as numbers with missing
\* entries, as long as one value is present: the missing entries are
\* replaced by the median of the values present.
C20_NoMissingTotalCharges ==
    TelCleaned =>
        ((\E i \in DOMAIN telRaw :
             telRaw[i].TotalCharges.text \notin {<<>>, <<" ">>}
             \/ ~IsNa(telRaw[i].TotalCharges.num))
         => \A j \in DOMAIN telClean : ~IsNa(telClean[j].TotalCharges.num))

\* C19: in every entry point the stages run in the order load, clean,
\* engineer features, report: engineer_features is called on nothing but a
\* dataset the cleaner has returned, so a run is past the feature engineer
\* only when it was called from the cleaned stage on the cleaned frame.
C19_EngineerOnlyAfterClean ==
    [][(airPc' \in {"returned", "charted", "raised"} /\ airPc' # airPc) =>
           /\ airPc = "cleaned"
           /\ airFeat' = engineer_features(airClean).df]_vars

\* The customer of a row has the service of a listed column: an internet
\* service of a kind ('DSL', 'Fiber optic'), or 'Yes' in another column.
HasService(row, col) ==
    /\ col \in DOMAIN row
    /\ IF col = "InternetService" THEN row[col] \in {"DSL", "Fiber optic"}
       ELSE row[col] = "Yes"

\* C21: Service_Count of every row is the number of the nine listed service
\* columns in which the customer has the service, an InternetService of
\* 'DSL' or 'Fiber optic' counted as one.
C21_ServiceCountCountsServices ==
    TelEngineered =>
        \A i \in DOMAIN telFeat :
           telFeat[i].Service_Count
               = Cardinality({k \in DOMAIN ServiceCols :
                     HasService(telFeat[i].base, ServiceCols[k])})

\* The Airbnb feature engineer has returned or raised.
AirEngineerDone == airPc \in {"returned", "raised", "charted"}

\* The documented review_activity of a number of reviews.
DocumentedReviewActivity(n) ==
    IF n = 0 THEN "No Reviews"
    ELSE IF n \in 1..10 THEN "Few Reviews"
    ELSE IF n \in 11..50 THEN "Many Reviews"
    ELSE IF n > 50 THEN "Highly Reviewed"
    ELSE NA

\* C22: engineer_features does not fail, and gives every cleaned row the
\* review_activity of its number_of_reviews: 'No Reviews' for 0, 'Few
\* Reviews' for 1..10, 'Many Reviews' for 11..50, 'Highly Reviewed' above.
C22_ReviewActivityAssigned ==
    AirEngineerDone =>
        /\ airErr = "none"
        /\ \A i \in DOMAIN airClean :
              \E j \in DOMAIN airFeat :
                 /\ airFeat[j].idx = airClean[i].idx
                 /\ airFeat[j].review_activity
                        = DocumentedReviewActivity(Val(airClean[i].number_of_reviews))

\* The documented availability_category of a number of available days.
DocumentedAvailability(a) ==
    IF a \in 0..90 THEN "Low Available"
    ELSE IF a \in 91..180 THEN "Medium Available"
    ELSE IF a \in 181..365 THEN "High Available"
    ELSE NA

\* C23: every cleaned row with availability_365 in 0..365, 0 included, gets
\* from the feature engineer's binning a availability_category that is not
\* missing: 'Low Available' up to 90, 'Medium Available' for 91..180, 'High
\* Available' for 181..365.
C23_AvailabilityCategoryTotal ==
    AirCleaned =>
        \A i \in DOMAIN airClean :
           LET a == airClean[i].availability_365
           IN (~IsNa(a) /\ Val(a) \in 0..365) =>
                 /\ AirFeatureRow(airClean[i]).availability_category # NA
                 /\ AirFeatureRow(airClean[i]).availability_category
                        = DocumentedAvailability(Val(a))

\* The documented host_type of a number of listings; none for 0.
DocumentedHostType(c) ==
    IF c = 1 THEN "Single Listing"
    ELSE IF c \in 2..5 THEN "Multiple Listings"
    ELSE IF c > 5 THEN "Super Host"
    ELSE NA

\* C24: host_type of a cleaned row is 'Single Listing' exactly for a count
\* of 1, 'Multiple Listings' exactly for 2..5 and 'Super Host' exactly above
\* 5; a count of 0 is not 'Multiple Listings'.
C24_HostTypeByCount ==
    AirCleaned =>
        \A i \in DOMAIN airClean :
           LET c == Val(airClean[i].calculated_host_listings_count)
               host == AirFeatureRow(airClean[i]).host_type
           IN /\ host = "Single Listing" <=> c = 1
              /\ host = "Multiple Listings" <=> c \in 2..5
              /\ host = "Super Host" <=> c > 5

\* C25: Risk_Score of every row is an integer in 0..8 and Risk_Category is
\* never missing; the score is 8 only for a month-to-month contract with
\* tenure <= 12, charges above the threshold, fiber optic and electronic
\* check.
C25_RiskScoreInRange ==
    TelEngineered =>
        \A i \in DOMAIN telFeat :
           LET f == telFeat[i]
           IN /\ f.Risk_Score \in 0..8
              /\ f.Risk_Category # NA
              /\ f.Risk_Score = 8 =>
                    /\ f.base.Contract = "Month-to-month"
                    /\ f.base.tenure <= 12
                    /\ AboveP75(f.base.MonthlyCharges, telClean)
                    /\ f.base.InternetService = "Fiber optic"
                    /\ f.base.PaymentMethod = "Electronic check"

\* C25's case: a frame with a row of score 8 and a row of score 0, both
\* with a category.
C25_Witness ==
    /\ TelEngineered
    /\ \E i, j \in DOMAIN telFeat :
          /\ telFeat[i].Risk_Score = 8 /\ telFeat[i].Risk_Category = "High Risk"
          /\ telFeat[j].Risk_Score = 0 /\ telFeat[j].Risk_Category = "Low Risk"

\* C26: the high-charges flag and the charges rule of the risk score agree
\* on every row: Risk_Score holds the +1 of the charges rule exactly when
\* High_Charges is 'Yes', also where MonthlyCharges equals the threshold.
C26_FlagAndChargesRuleAgree ==
    TelEngineered =>
        \A i \in DOMAIN telFeat :
           telFeat[i].Risk_Score
               = DocumentedRisk(telFeat[i].base, telFeat[i].High_Charges = "Yes")

\* The values of a key column identify the rows of a table.
UniqueKey(table, key) ==
    \A i, j \in DOMAIN table : table[i][key] = table[j][key] => i = j

UniqueJoinKeys(tables) ==
    /\ UniqueKey(tables.products, "product_id")
    /\ UniqueKey(tables.departments, "department_id")
    /\ UniqueKey(tables.aisles, "aisle_id")
    /\ UniqueKey(tables.orders, "order_id")

\* Every row carries the number of rows of the frame with its order_id.
BasketSizeCountsRows(df) ==
    \A i \in DOMAIN df :
       df[i].basket_size
           = Num(Cardinality({j \in DOMAIN df :
                                 df[j].order_id = df[i].order_id}))

InsMasterBuilt ==
    insPc \in {"master", "analysed", "charted", "summarized", "done"}

\* C27: with unique join keys the master dataset has one row per row of
\* order_products_prior, in the analysis scripts and in the preprocessing
\* script; adding basket_size keeps the row count, and basket_size is the
\* number of master rows with the row's order_id.
C27_MasterKeepsOrderLines ==
    (InsMasterBuilt /\ UniqueJoinKeys(insTables)) =>
        LET lines == insTables.order_products_prior
            joined == prep_create_master_dataset(insTables)
            cleaned == prep_clean_data(joined.df).out
            engineered == prep_engineer_features(cleaned)
        IN /\ Len(insMaster) = Len(lines)
           /\ \A i \in DOMAIN insMaster :
                 /\ insMaster[i].order_id = lines[i].order_id
                 /\ insMaster[i].product_id = lines[i].product_id
           /\ BasketSizeCountsRows(insMaster)
           \* the tables are those of the state in which the master dataset
           \* was built: the later steps leave insTables alone
           /\ insPc = "master" =>
                 /\ joined.err = "none"
                 /\ Len(joined.df) = Len(lines)
                 /\ engineered.err = "none" =>
                       /\ Len(engineered.out) = Len(cleaned)
                       /\ BasketSizeCountsRows(engineered.out)

\* Real files whose order lines hold an order of two lines and a line of an
\* order that the orders table does not have.
C27_Witness ==
    /\ InsMasterBuilt
    /\ UniqueJoinKeys(insTables)
    /\ \E i \in DOMAIN insMaster :
          IsNa(insMaster[i].user_id) /\ insMaster[i].basket_size = Num(1)
    /\ \E i \in DOMAIN insMaster : insMaster[i].basket_size = Num(2)
    /\ prep_engineer_features(
           prep_clean_data(prep_create_master_dataset(insTables).df).out).err
         = "none"

\* The weekend and the weekday orders of the master dataset are disjoint,
\* cover its orders, and the two counts add up to total_orders.
WeekendWeekdayPartition ==
    /\ WeekendIds \cap WeekdayIds = {}
    /\ WeekendIds \cup WeekdayIds
         = {insMaster[i].order_id : i \in DOMAIN insMaster}
    /\ WeekendOrders(insMaster) = Cardinality(WeekendIds)
    /\ WeekdayOrders(insMaster) = Cardinality(WeekdayIds)
    /\ WeekendOrders(insMaster) + WeekdayOrders(insMaster)
         = insSummary[1].total_orders

\* C28, as stated: in generate_executive_summary the weekend and the
\* weekday orders partition the orders of the master dataset: every
\* order_id is counted in exactly one of the two, so the counts add up to
\* total_orders, also for lines whose order_dow is missing.
C28_WeekendWeekdayPartition ==
    InsSummarized => WeekendWeekdayPartition

\* C28, amended: when order_id is unique in the orders table, the weekend
\* and the weekday orders partition the orders of the master dataset and
\* the counts add up to total_orders, also for lines whose order_dow is
\* missing; an order_id that orders.csv holds on a weekend day and on
\* another day is counted in both.
C28_PartitionWhenOrderIdsUnique ==
    InsSummarized =>
        /\ UniqueKey(insTables.orders, "order_id") => WeekendWeekdayPartition
        /\ WeekendOrders(insMaster) = Cardinality(WeekendIds)
        /\ WeekdayOrders(insMaster) = Cardinality(WeekdayIds)
        /\ Cardinality(WeekendIds \cup WeekdayIds)
             = insSummary[1].total_orders
        /\ \A i, j \in DOMAIN insMaster :
              (/\ insMaster[i].order_id = insMaster[j].order_id
               /\ IsWeekend(insMaster[i]) /\ ~IsWeekend(insMaster[j])) =>
                 insMaster[i].order_id \in WeekendIds \cap WeekdayIds

\* A summary of real files with a weekend order, a weekday order and a line
\* of an order that the orders table does not have.
C28_Witness ==
    /\ InsSummarized
    /\ UniqueKey(insTables.orders, "order_id")
    /\ \E i \in DOMAIN insMaster : IsNa(insMaster[i].order_dow)
    /\ \E i \in DOMAIN insMaster : insMaster[i].order_dow = Num(6)
    /\ \E i \in DOMAIN insMaster : insMaster[i].order_dow = Num(3)
    /\ insSummary[1].total_orders = 3

SimulatedTags == {"simulated", "False"}
RealTags == {"real", "True"}

\* C29: load_or_simulate_data returns five real tables or five simulated
\* tables and never a mixture: with a file missing every table returned is
\* the simulated one, a table that was read from disk is not returned, and
\* the tag says simulated; the tag says real only when all five files were
\* read, and then every table is the file's.
C29_RealOrSimulatedNeverMixed ==
    [][InsLoad =>
         LET allRead == \A n \in DOMAIN insFiles : insFiles[n].exists
             sim == SimulatedTables(insScript, rng)
         IN /\ DOMAIN insTables' = DOMAIN insFiles
            /\ (insSource' \in RealTags) <=> allRead
            /\ (insSource' \in SimulatedTags) <=> ~allRead
            /\ allRead =>
                  \A n \in DOMAIN insFiles : insTables'[n] = insFiles[n].rows
            /\ ~allRead =>
                  \A n \in DOMAIN insFiles :
                     /\ insTables'[n] = sim[n]
                     /\ insFiles[n].exists =>
                           insTables'[n] # insFiles[n].rows]_vars

\* The aisles file is missing after the orders and the products were read,
\* and the call returned simulated tables.
C29_Witness ==
    /\ insPc = "loaded"
    /\ insFiles.orders.exists
    /\ insFiles.products.exists
    /\ ~insFiles.aisles.exists
    /\ insSource \in SimulatedTags
    /\ insTables.orders # insFiles.orders.rows
    /\ insTables.products # insFiles.products.rows

----------------------------------------------------------------------------
(* The two cleaning functions, each on the inputs of its own script.       *)

InitCleaning == InitAir \/ InitTelco
NextCleaning == AirLoad \/ AirClean \/ TelLoad \/ TelClean
SpecCleaning == InitCleaning /\ [][NextCleaning]_vars

\* The type of the TotalCharges column of a frame clean_data returned:
\* pd.to_numeric leaves a numeric column, and a numeric column is kept.
CleanedDtype == "float64"

\* C30: cleaning is idempotent: clean_airbnb_data with the same bounds, and
\* the Telco clean_data, applied to the frame they returned, return a frame
\* equal to it, with no row removed and no value changed.
C30_CleaningIdempotent ==
    /\ AirCleaned => clean_airbnb_data(airClean, airMin, airMax) = airClean
    /\ TelCleaned =>
          LET again == clean_data(telClean, CleanedDtype)
          IN again.err = "none" /\ again.df = telClean

\* A cleaned Airbnb frame of two listings after a row was removed or a cell
\* filled, or a cleaned Telco frame of two customers after a blank was
\* filled or a repeated row dropped.
C30_Witness ==
    /\ AirCleaned
    /\ Len(airClean) = 2
    /\ airClean # airDf
    /\ airClean[1].price # airClean[2].price

C30_WitnessTelco ==
    /\ TelCleaned
    /\ Len(telClean) = 2
    /\ telClean # telRaw
    /\ \E i \in DOMAIN telRaw : telRaw[i].TotalCharges.text = <<" ">>

=============================================================================
